---- MODULE Spec2Model ----
(***************************************************************************)
(* Model of the LSP session manager daemon (cmd/lsp-session-manager):     *)
(* the request registry (sendRequest / readResponses), the framed writer  *)
(* (writeMessage), the document registry (handleDidOpen / handleDidClose), *)
(* the progress tracker (handleNotification) and the file watchers        *)
(* (PollingWatcher, runFsnotifyWatcher, startFileWatcherAfterIndexing).    *)
(*                                                                         *)
(* Every goroutine is a task with a program counter in pc; a step of the   *)
(* model is the code between two suspension points (a mutex acquisition,   *)
(* a blocking write, a channel operation, a timer).                        *)
(***************************************************************************)
EXTENDS Integers, Sequences, FiniteSets, TLC

\* ------------------------------------------------------------------ bounds

\* Number of messages the LSP child emits on its stdout over a run.
MaxLspMsgs == 2
\* Frame parts (header or body) the stdin pipe holds before a Write blocks.
PipeCap == 1
\* Number of textDocument/didOpen and didClose API calls made over a run.
MaxDocCalls == 2
\* Number of changes made to the workspace files over a run.
MaxFsChanges == 2
\* Largest modification time of a file (0 stands for: no such file).
MaxMtime == 2
\* Number of lines the API clients send over a run.
MaxApiLines == 2
\* Longest string id and largest number id given to the id codec.
MaxIdLen == 3
MaxIdNum == 42
\* Longest short body, number of long bodies (10, 20, ... bytes) and number of
\* frames given to the framed codec.
MaxBodyLen == 1
MaxLongBodies == 1
MaxFrames == 2
\* Number of $/progress notifications given to the progress tracker, and the
\* file count M of their "N/M" messages.
MaxProgress == 3
MaxTotal == 3
\* Longest host path given to the path mapper.
MaxPathLen == 4
\* Workers of a scan (pw.workers) and buffer size of its directory channel
\* (1000 in make(chan string, 1000), scaled down).
MaxWorkers == 2
\* Number of $/progress notifications the server sends under its tokens.
MaxTokenMsgs == 4
\* Number of Start and Stop calls made on a PollingWatcher over a run.
MaxCalls == 4
\* Number of API clients that connect while the daemon starts.
MaxClients == 2
\* Number of fsnotify events delivered to a runFsnotifyWatcher loop over a run.
MaxEvents == 3
DirsCap == 1

\* Buffer size of a response channel: make(chan lspResponse, 1).
RespChanCap == 1

\* ------------------------------------------------------------------- tasks

\* Goroutines inside sendRequest (API clients forwarding a request).
Callers == {"c1", "c2"}
\* Goroutines inside handleDidOpen / handleDidClose (API clients).
DocClients == {"d1", "d2"}
\* startFileWatcherAfterIndexing, PollingWatcher.runPollingLoop and
\* runFsnotifyWatcher.
Starter == "starter"
Poller == "pw"
Fsn == "fsn"
Watchers == {Starter, Poller, Fsn}
\* The goroutine of main that waits for a termination signal.
Sig == "sig"
\* Goroutines inside handleAPIRequest for session/status or session/capabilities.
StatusClients == {"s1"}
Tasks == Callers \cup DocClients \cup Watchers \cup {Sig} \cup StatusClients

\* Watched files of the workspace (.bsl / .os).
Paths == {"a.bsl"}

\* Document URIs the API clients name.
URIs == {"u1", "u2"}

NoTask == "none"

VARIABLES
    pc,          \* task -> position in its code
    msg,         \* task -> the message its writeMessage call is writing
    werr,        \* task -> whether its last writeMessage call returned an error
    mu,          \* holder of sm.mu (NoTask when free)
    stdinOpen,   \* FALSE once writes to the child's stdin fail (child gone)
    pipe,        \* frame parts written to stdin and not yet read by the child
    wire,        \* every frame part written to stdin, in order
    lspSent,     \* number of messages the child has emitted and the reader has read
    rd,          \* the readResponses goroutine: its position and current message
    requestID,   \* sm.requestID
    pending,     \* sm.pending: id -> response channel (named by its caller)
    pendingMu,   \* holder of sm.pendingMu (NoTask when free)
    respCh,      \* caller -> buffer of the channel its current call created
    callID,      \* caller -> id of its current (or last) sendRequest call
    expired,     \* caller -> whether ctx.Done() of its current call is closed
    ret,         \* caller -> what its last sendRequest call returned
    allocLog,    \* history: the ids allocated, in order
    recvLog,     \* history: caller -> the ids of the responses it has received
    afterTimeout, \* history: caller -> whether its call began after a call had timed out
    openDocs,    \* sm.openDocs: the set of URIs mapped to true
    alreadyOpen, \* doc client -> the local alreadyOpen of its handleDidOpen call
    apiLog,      \* history: the didOpen / didClose API calls and their returns
    indexingActive, \* sm.indexingActive
    indexingCurrent, \* sm.indexingCurrent
    indexingTotal, \* sm.indexingTotal
    indexingSpeed, \* sm.indexingSpeed: 0, or 1 for any speed above 0
    indexingFirstStarted, \* sm.indexingFirstStartedAt: 0 for the zero time, else the number of the notification that set it
    progLog,     \* history: the kinds of the $/progress notifications processed
    progGap,     \* history: time between the last notification processed and the one before
    progTokens,  \* history: the tokens of the $/progress notifications processed
    statusOut,   \* the result of the last session/status or session/capabilities call
    watcherMode, \* sm.watcherMode ("" until startFileWatcher has run)
    fs,          \* the workspace: path -> modification time, 0 when absent
    fsChanges,   \* number of changes made to the workspace
    fileMap,     \* pw.fileMap: the polling watcher's snapshot
    oldFiles,    \* the local oldFiles of checkForChanges
    fsEvents,    \* sm.watcher.Events: the fsnotify events not yet received
    pendingChanges, \* the local pendingChanges of runFsnotifyWatcher (0: no entry)
    timerArmed,  \* whether debounceTimer is running
    conn,        \* API client -> its connection: "none", "open" or "closed"
    apiLines,    \* number of lines the API clients have sent
    apiReq,      \* API client -> the local req of its HandleClient goroutine
    apiOut,      \* API client -> the responses written to its connection
    daemon,      \* the daemon process: "up" or "exited"
    codec,       \* a JSONRPCID being parsed and serialized: position, input, value, output
    framing,     \* frames being written and parsed: the bodies, the bytes in between, the bodies read
    nativeWatcher, \* fsnotify.NewWatcher: "none" (not called), "created" or "failed"
    watcherStop, \* watcher -> its stop channel (pw.stopChan, sm.watcherStop): "open", "closed", or "skipped" when Stop found no watcher
    pathmap, \* a HostToContainer call: position, host path, error, container path
    scan, \* a PollingWatcher.scan call: the dirs channel, activeWorkers, the workers, the monitor, the result
    debounce, \* a runFsnotifyWatcher loop on its own: the events, pendingChanges, debounceTimer, the batches sent
    boot, \* the daemon's start on its own: main's position, the child, the handshake, the listener, the API clients
    poll \* a PollingWatcher on its own: running, stopChan, the Start and Stop calls in progress, its loops

ioVars == <<mu, stdinOpen, pipe, wire>>
rdVars == <<lspSent, rd>>
taskVars == <<pc, msg, werr>>
reqVars == <<requestID, pending, pendingMu, respCh, callID, expired, ret, allocLog, recvLog,
            afterTimeout>>
docVars == <<openDocs, alreadyOpen, apiLog>>
progVars == <<indexingActive, indexingCurrent, indexingTotal, indexingSpeed,
             indexingFirstStarted, progLog, progGap, progTokens, statusOut>>
watchVars == <<watcherMode, fs, fsChanges, fileMap, oldFiles, fsEvents, pendingChanges,
               timerArmed>>
apiVars == <<conn, apiLines, apiReq, apiOut>>
codecVars == <<codec>>
daemonVars == <<daemon>>
frameVars == <<framing>>
nativeVars == <<nativeWatcher>>
stopVars == <<watcherStop>>
pathVars == <<pathmap>>
scanVars == <<scan>>
debounceVars == <<debounce>>
bootVars == <<boot>>
pollVars == <<poll>>
vars == <<pc, msg, werr, mu, stdinOpen, pipe, wire, lspSent, rd,
          requestID, pending, pendingMu, respCh, callID, expired, ret, allocLog, recvLog,
          afterTimeout, openDocs, alreadyOpen, apiLog, indexingActive, progLog,
          indexingCurrent, indexingTotal, indexingSpeed, indexingFirstStarted, progGap,
          progTokens,
          statusOut,
          watcherMode, fs, fsChanges, fileMap, oldFiles, fsEvents, pendingChanges,
          timerArmed, conn, apiLines, apiReq, apiOut, daemon, codec, framing, nativeWatcher, watcherStop, pathmap, scan, debounce, boot, poll>>

\* ----------------------------------------------------------------- helpers

MapPut(f, k, v) == [x \in DOMAIN f \cup {k} |-> IF x = k THEN v ELSE f[x]]

\* A message written to the LSP: request (id > 0) or notification (id = 0).
Msg(method, id, uri, changes) ==
    [method |-> method, id |-> id, uri |-> uri, changes |-> changes]

NoMsg == Msg("", 0, "", {})

\* ---------------------------------------------------------------- ID codec

\* A JSON id value as it stands in a message of the child.
NumId(n) == [kind |-> "num", n |-> n, s |-> <<>>]
StrId(s) == [kind |-> "str", n |-> 0, s |-> s]
NullId == [kind |-> "null", n |-> 0, s |-> <<>>]
AbsentId == [kind |-> "absent", n |-> 0, s |-> <<>>]

Digits == <<"0", "1", "2", "3", "4", "5", "6", "7", "8", "9">>
IsDigit(ch) == \E i \in 1..10 : Digits[i] = ch
DigitVal(ch) == (CHOOSE i \in 1..10 : Digits[i] = ch) - 1

RECURSIVE ParseDigits(_, _)
ParseDigits(s, acc) ==
    IF s = <<>> THEN acc ELSE ParseDigits(Tail(s), acc * 10 + DigitVal(Head(s)))

\* strconv.ParseInt(s, 10, 64): an optional sign, then one or more digits.
ParseInt(s) ==
    LET signed == Len(s) > 0 /\ Head(s) \in {"+", "-"}
        body == IF signed THEN Tail(s) ELSE s
        ok == Len(body) > 0 /\ \A i \in 1..Len(body) : IsDigit(body[i])
        mag == IF ok THEN ParseDigits(body, 0) ELSE 0
    IN [ok |-> ok, v |-> IF signed /\ Head(s) = "-" THEN 0 - mag ELSE mag]

\* JSONRPCID after UnmarshalJSON: intValue / strValue, each possibly nil.
UnmarshalJSON(raw) ==
    IF raw.kind = "num"
    THEN [hasInt |-> TRUE, intValue |-> raw.n, hasStr |-> FALSE, strValue |-> <<>>]
    ELSE IF raw.kind = "str"
    THEN [hasInt |-> ParseInt(raw.s).ok, intValue |-> ParseInt(raw.s).v,
          hasStr |-> TRUE, strValue |-> raw.s]
    ELSE [hasInt |-> FALSE, intValue |-> 0, hasStr |-> FALSE, strValue |-> <<>>]

\* Lines 76-84: the JSON value MarshalJSON emits.
MarshalJSON(id) ==
    IF id.hasInt THEN NumId(id.intValue)
    ELSE IF id.hasStr THEN StrId(id.strValue)
    ELSE NullId

AsInt64(id) == IF id.hasInt THEN id.intValue ELSE 0

IsSet(id) == id.hasInt \/ id.hasStr

\* baseMsg.ID != nil && baseMsg.ID.IsSet() && baseMsg.Method == ""
IsResponse(m) ==
    /\ m.id.kind # "absent"
    /\ IsSet(UnmarshalJSON(m.id))
    /\ m.method = ""

\* The id values given to the codec.
IdAlphabet == {"4", "2", "a", "-"}

IdStrings == UNION {[1..n -> IdAlphabet] : n \in 0..MaxIdLen}

IdInputs ==
    {NumId(n) : n \in 0..MaxIdNum} \cup {StrId(str) : str \in IdStrings}
        \cup {NullId, AbsentId}

\* The zero JSONRPCID.
ZeroID == [hasInt |-> FALSE, intValue |-> 0, hasStr |-> FALSE, strValue |-> <<>>]

CodecAt(at, raw, id, out) == [pc |-> at, raw |-> raw, id |-> id, out |-> out]

\* Lines 49-74: parse the id field of a message (encoding/json leaves the
\* field at its zero value when the message has none).
DecodeIdField(raw) ==
    IF raw.kind = "absent" THEN ZeroID ELSE UnmarshalJSON(raw)

CodecUnmarshal ==
    /\ codec.pc = "input"
    /\ codec' = CodecAt("parsed", codec.raw, DecodeIdField(codec.raw), codec.out)

\* Lines 76-84: serialize the parsed id.
CodecMarshal ==
    /\ codec.pc = "parsed"
    /\ codec' = CodecAt("emitted", codec.raw, codec.id, MarshalJSON(codec.id))

\* ------------------------------------------------------------ writeMessage

\* writeMessage without sm.mu.Lock(): the caller just goes on to write.
WriteLock_NoMutex(t) ==
    /\ pc[t] = "wLock"
    /\ mu' = t
    /\ pc' = [pc EXCEPT ![t] = "wHeader"]
    /\ UNCHANGED <<msg, werr, stdinOpen, pipe, wire>>

\* sm.mu.Lock()
WriteLock(t) ==
    /\ pc[t] = "wLock"
    /\ mu = NoTask
    /\ mu' = t
    /\ pc' = [pc EXCEPT ![t] = "wHeader"]
    /\ UNCHANGED <<msg, werr, stdinOpen, pipe, wire>>

\* One sm.stdin.Write: it blocks while the pipe is full and fails once the
\* child's end is gone; on failure the deferred Unlock runs and the call returns.
WritePart(t, at, part, next) ==
    /\ pc[t] = at
    /\ mu = t
    /\ IF stdinOpen
       THEN /\ pipe < PipeCap
            /\ pipe' = pipe + 1
            /\ wire' = Append(wire, [part |-> part, by |-> t, m |-> msg[t]])
            /\ pc' = [pc EXCEPT ![t] = next]
            /\ werr' = [werr EXCEPT ![t] = FALSE]
            /\ mu' = IF next = "wrote" THEN NoTask ELSE mu
       ELSE /\ pc' = [pc EXCEPT ![t] = "wrote"]
            /\ werr' = [werr EXCEPT ![t] = TRUE]
            /\ mu' = NoTask
            /\ UNCHANGED <<pipe, wire>>
    /\ UNCHANGED <<msg, stdinOpen>>

WriteHeader(t) == WritePart(t, "wHeader", "header", "wBody")

WriteBody(t) == WritePart(t, "wBody", "body", "wrote")

\* The messages the LSP has been sent: the bodies on the wire, in order.
Stream == SelectSeq(wire, LAMBDA p : p.part = "body")

\* ---------------------------------------------------------- the LSP child

\* The child reads one frame part from its stdin.
LspConsume ==
    /\ pipe > 0
    /\ pipe' = pipe - 1
    /\ UNCHANGED <<mu, stdinOpen, wire>>

\* The child exits: writes to its stdin fail from now on, and reads from its
\* stdout fail once what it had written has been read.
LspDies ==
    /\ stdinOpen
    /\ stdinOpen' = FALSE
    /\ UNCHANGED <<mu, pipe, wire>>

\* The ids a message of the child may carry.
RawIds ==
    {NumId(n) : n \in 1..Cardinality(Callers)} \cup {StrId(<<"1">>), StrId(<<"a", "b", "c">>)}

\* A message of the child: a response (method "") or a notification.
LspMsg(id, method, isErr, kind) ==
    [id |-> id, method |-> method, isErr |-> isErr, kind |-> kind]

Responses ==
    {LspMsg(id, "", FALSE, "") : id \in RawIds} \cup {LspMsg(NumId(1), "", TRUE, "")}


\* ---------------------------------------------------------- sendRequest

\* sm.requestID++ ; id := sm.requestID
AllocID_PostIncrement(r) == [next |-> r + 1, id |-> r]

AllocID_NoIncrement(r) == [next |-> r, id |-> r + 1]

\* every call is given the id 1
AllocID_Constant(r) == [next |-> r + 1, id |-> 1]

AllocID(r) == [next |-> r + 1, id |-> r + 1]

\* delete(sm.pending, id)
DeletePending_Skipped(p, id) == p

DeletePending(p, id) == [x \in DOMAIN p \ {id} |-> p[x]]

InProgress(c) == pc[c] \notin {"idle", "done"}

\* Lines 574-592: allocate the id, register the channel, build the request.
SendRequestStart(c) ==
    /\ pc[c] = "idle"
    /\ pendingMu = NoTask
    /\ LET a == AllocID(requestID) IN
        /\ requestID' = a.next
        /\ callID' = [callID EXCEPT ![c] = a.id]
        /\ pending' = MapPut(pending, a.id, c)
        /\ allocLog' = Append(allocLog, a.id)
        /\ msg' = [msg EXCEPT ![c] = Msg("request", a.id, "", {})]
    /\ respCh' = [respCh EXCEPT ![c] = <<>>]
    /\ expired' = [expired EXCEPT ![c] = FALSE]
    /\ ret' = [ret EXCEPT ![c] = "none"]
    /\ afterTimeout' = [afterTimeout EXCEPT ![c] =
                            \E d \in Callers : pc[d] = "done" /\ ret[d] = "timeout"]
    /\ pc' = [pc EXCEPT ![c] = "wLock"]
    /\ UNCHANGED <<werr, pendingMu, recvLog>>

\* Lines 594-596: writeMessage returned.
SendRequestWritten(c) ==
    /\ pc[c] = "wrote"
    /\ IF werr[c]
       THEN /\ ret' = [ret EXCEPT ![c] = "writeerr"]
            /\ pc' = [pc EXCEPT ![c] = "cleanup"]
       ELSE /\ pc' = [pc EXCEPT ![c] = "select"]
            /\ UNCHANGED ret
    /\ UNCHANGED <<msg, werr, requestID, pending, pendingMu, respCh, callID, expired,
                   allocLog, afterTimeout, recvLog>>

\* Lines 599-603: case resp := <-respCh
SendRequestReceive(c) ==
    /\ pc[c] = "select"
    /\ respCh[c] # <<>>
    /\ LET resp == Head(respCh[c]) IN
        ret' = [ret EXCEPT ![c] = IF resp.isErr THEN "lsperr" ELSE "result"]
    /\ respCh' = [respCh EXCEPT ![c] = Tail(respCh[c])]
    /\ recvLog' = [recvLog EXCEPT ![c] = Append(@, Head(respCh[c]).raw)]
    /\ pc' = [pc EXCEPT ![c] = "cleanup"]
    /\ UNCHANGED <<msg, werr, requestID, pending, pendingMu, callID, expired, allocLog, afterTimeout>>

\* Lines 604-605: case <-ctx.Done()
SendRequestTimeout(c) ==
    /\ pc[c] = "select"
    /\ expired[c]
    /\ ret' = [ret EXCEPT ![c] = "timeout"]
    /\ pc' = [pc EXCEPT ![c] = "cleanup"]
    /\ UNCHANGED <<msg, werr, requestID, pending, pendingMu, respCh, callID, expired,
                   allocLog, afterTimeout, recvLog>>

\* Lines 581-585: the deferred removal of the pending entry, then the return.
SendRequestCleanup(c) ==
    /\ pc[c] = "cleanup"
    /\ pendingMu = NoTask
    /\ pending' = DeletePending(pending, callID[c])
    /\ pc' = [pc EXCEPT ![c] = "done"]
    /\ msg' = [msg EXCEPT ![c] = NoMsg]
    /\ werr' = [werr EXCEPT ![c] = FALSE]
    /\ respCh' = [respCh EXCEPT ![c] = <<>>]
    /\ expired' = [expired EXCEPT ![c] = FALSE]
    /\ UNCHANGED <<requestID, pendingMu, callID, ret, allocLog, afterTimeout, recvLog>>

\* The deadline of the call's context passes (context.WithTimeout).
DeadlineExpires(c) ==
    /\ InProgress(c)
    /\ ~expired[c]
    /\ expired' = [expired EXCEPT ![c] = TRUE]
    /\ UNCHANGED <<requestID, pending, pendingMu, respCh, callID, ret, allocLog, afterTimeout, recvLog>>

\* --------------------------------------------------------- readResponses

\* The call has taken the ctx.Done() branch and has not returned yet.
TimedOut(c) == pc[c] = "cleanup" /\ ret[c] = "timeout"

\* Lines 645-668: readLSPMessage returns the child's next message m, which
\* is a response.
ReaderReadResponse(m) ==
    /\ rd.pc = "read"
    /\ lspSent < MaxLspMsgs
    /\ lspSent' = lspSent + 1
    /\ IsResponse(m)
    /\ rd' = [pc |-> "lock", m |-> m,
              late |-> \E c \in Callers :
                          TimedOut(c) /\ callID[c] = AsInt64(UnmarshalJSON(m.id))]

\* Lines 646-649: readLSPMessage fails (the child is gone), the loop ends.
ReaderReadError ==
    /\ rd.pc = "read"
    /\ ~stdinOpen
    /\ rd' = [rd EXCEPT !.pc = "exited"]
    /\ UNCHANGED lspSent

\* Line 670: sm.pendingMu.Lock()
ReaderLock ==
    /\ rd.pc = "lock"
    /\ pendingMu = NoTask
    /\ pendingMu' = "reader"
    /\ rd' = [rd EXCEPT !.pc = "deliver"]
    /\ UNCHANGED <<requestID, pending, respCh, callID, expired, ret, allocLog, afterTimeout, recvLog>>

\* Lines 669-678: look the id up, send on the channel (blocking while its
\* buffer is full), unlock.
ReaderDeliver ==
    /\ rd.pc = "deliver"
    /\ LET idInt == AsInt64(UnmarshalJSON(rd.m.id)) IN
        IF idInt \in DOMAIN pending
        THEN LET c == pending[idInt] IN
            /\ Len(respCh[c]) < RespChanCap
            /\ respCh' = [respCh EXCEPT ![c] =
                            Append(@, [isErr |-> rd.m.isErr, raw |-> rd.m.id])]
        ELSE UNCHANGED respCh
    /\ pendingMu' = NoTask
    /\ rd' = [rd EXCEPT !.pc = "read"]
    /\ UNCHANGED <<requestID, pending, callID, expired, ret, allocLog, afterTimeout, recvLog>>

\* ------------------------------------------------------ document registry

DidOpenMethod == "textDocument/didOpen"
DidCloseMethod == "textDocument/didClose"

ApiEvent(ev, op, u, d, err) == [ev |-> ev, op |-> op, uri |-> u, by |-> d, err |-> err]

DocCalls == Len(SelectSeq(apiLog, LAMBDA e : e.ev = "call"))

\* alreadyOpen := sm.openDocs[uri]
AlreadyOpen_Never(docs, u) == FALSE

AlreadyOpen(docs, u) == u \in docs

\* Lines 1067-1078: under openDocsMu, read and set the map entry; then the
\* first notification to send is didClose (refresh) or didOpen.
DidOpenMark(d, u) ==
    /\ pc[d] = "idle"
    /\ DocCalls < MaxDocCalls
    /\ alreadyOpen' = [alreadyOpen EXCEPT ![d] = AlreadyOpen(openDocs, u)]
    /\ openDocs' = openDocs \cup {u}
    /\ msg' = [msg EXCEPT ![d] =
                Msg(IF AlreadyOpen(openDocs, u) THEN DidCloseMethod ELSE DidOpenMethod,
                    0, u, {})]
    /\ apiLog' = Append(apiLog, ApiEvent("call", "open", u, d, FALSE))
    /\ pc' = [pc EXCEPT ![d] = "wLock"]
    /\ UNCHANGED werr

\* Lines 1079-1085: the didClose of a refresh was written (or failed: return
\* the error); send didOpen.
DidOpenClosed(d) ==
    /\ pc[d] = "wrote"
    /\ msg[d].method = DidCloseMethod
    /\ alreadyOpen[d]
    /\ IF werr[d]
       THEN /\ apiLog' = Append(apiLog, ApiEvent("ret", "open", msg[d].uri, d, TRUE))
            /\ pc' = [pc EXCEPT ![d] = "idle"]
            /\ msg' = [msg EXCEPT ![d] = NoMsg]
            /\ alreadyOpen' = [alreadyOpen EXCEPT ![d] = FALSE]
            /\ werr' = [werr EXCEPT ![d] = FALSE]
       ELSE /\ msg' = [msg EXCEPT ![d] = Msg(DidOpenMethod, 0, msg[d].uri, {})]
            /\ pc' = [pc EXCEPT ![d] = "wLock"]
            /\ UNCHANGED <<apiLog, alreadyOpen, werr>>
    /\ UNCHANGED openDocs

\* Line 1085: return nil, sm.sendNotification("textDocument/didOpen", p)
DidOpenReturn(d) ==
    /\ pc[d] = "wrote"
    /\ msg[d].method = DidOpenMethod
    /\ apiLog' = Append(apiLog, ApiEvent("ret", "open", msg[d].uri, d, werr[d]))
    /\ pc' = [pc EXCEPT ![d] = "idle"]
    /\ msg' = [msg EXCEPT ![d] = NoMsg]
    /\ alreadyOpen' = [alreadyOpen EXCEPT ![d] = FALSE]
    /\ werr' = [werr EXCEPT ![d] = FALSE]
    /\ UNCHANGED openDocs

\* Lines 1100-1104: under openDocsMu delete the entry, then send didClose.
DidCloseUnmark(d, u) ==
    /\ pc[d] = "idle"
    /\ DocCalls < MaxDocCalls
    /\ openDocs' = openDocs \ {u}
    /\ msg' = [msg EXCEPT ![d] = Msg(DidCloseMethod, 0, u, {})]
    /\ apiLog' = Append(apiLog, ApiEvent("call", "close", u, d, FALSE))
    /\ pc' = [pc EXCEPT ![d] = "wLock"]
    /\ UNCHANGED <<werr, alreadyOpen>>

\* Line 1104: return nil, sm.sendNotification("textDocument/didClose", p)
DidCloseReturn(d) ==
    /\ pc[d] = "wrote"
    /\ msg[d].method = DidCloseMethod
    /\ ~alreadyOpen[d]
    /\ apiLog' = Append(apiLog, ApiEvent("ret", "close", msg[d].uri, d, werr[d]))
    /\ pc' = [pc EXCEPT ![d] = "idle"]
    /\ msg' = [msg EXCEPT ![d] = NoMsg]
    /\ werr' = [werr EXCEPT ![d] = FALSE]
    /\ UNCHANGED <<openDocs, alreadyOpen>>

\* ------------------------------------------------------- progress tracker

ProgressMethod == "$/progress"

ProgressKinds == {"begin", "report", "end"}

\* Time passed since sm.indexingLastUpdate when a notification is processed:
\* none, at most 30 seconds, more than 30 seconds.
ProgressGaps == {"zero", "short", "long"}

\* Lines 798-812: what parseProgressMessage finds in the message text: N and
\* M of "N/M" with M > 0, else 0 and 0.
ProgressCounts == {<<0, 0>>} \cup {<<n, MaxTotal>> : n \in 0..(MaxTotal + 1)}

\* The work-done tokens (params.token) the server reports progress under.
ProgressTokens == {"t1", "t2"}

ProgressMsg(kind, counts, gap) ==
    [id |-> AbsentId, method |-> ProgressMethod, isErr |-> FALSE, kind |-> kind,
     current |-> counts[1], total |-> counts[2], gap |-> gap, token |-> "t1"]

\* The notifications of several tokens.
TokenProgress ==
    {[m EXCEPT !.token = t] :
        m \in {ProgressMsg(k, <<0, 0>>, "short") : k \in {"begin", "end"}}
                \cup {ProgressMsg("report", c, "short") : c \in ProgressCounts},
        t \in ProgressTokens}

\* The tokens that have begun and not ended: those whose last notification
\* is no end.
OpenTokens(log, tokens) ==
    {t \in ProgressTokens :
        \E i \in 1..Len(log) :
            /\ tokens[i] = t
            /\ log[i] # "end"
            /\ \A j \in (i + 1)..Len(log) : tokens[j] # t}

\* The server keeps to the protocol for each token: begin, reports, end.
TokenOrder(m) ==
    IF m.kind = "begin"
    THEN m.token \notin OpenTokens(progLog, progTokens)
    ELSE m.token \in OpenTokens(progLog, progTokens)

\* Notifications whose message text holds no "N/M".
Progress == {ProgressMsg(k, <<0, 0>>, "short") : k \in ProgressKinds}

CountedProgress ==
    {ProgressMsg(k, <<0, 0>>, g) : k \in {"begin", "end"}, g \in ProgressGaps}
        \cup {ProgressMsg("report", c, g) : c \in ProgressCounts, g \in ProgressGaps}

\* Lines 718-773: the indexingActive flag after a $/progress of this kind.
ActiveAfter(active, kind) ==
    IF kind = "begin" THEN TRUE
    ELSE IF kind = "end" THEN FALSE
    ELSE active

IsNewCycle_Always(firstStarted, gap) == TRUE

\* Line 727: a begin opens a new indexing cycle when no cycle has begun yet
\* or more than 30 seconds have passed since the last update.
IsNewCycle(firstStarted, gap) == firstStarted = 0 \/ gap = "long"

\* Lines 645-665, 682-684, 691-775: readLSPMessage returns the child's next
\* message m, a $/progress notification, and handleNotification processes it.
ReaderReadProgress(m) ==
    /\ rd.pc = "read"
    /\ lspSent' = lspSent + 1
    /\ ~IsResponse(m)
    /\ m.method = ProgressMethod
    /\ indexingActive' = ActiveAfter(indexingActive, m.kind)
    /\ LET isNewCycle == IsNewCycle(indexingFirstStarted, m.gap)
           reset == m.kind = "begin" /\ isNewCycle
           counted == m.kind = "report" /\ m.total > 0
           finished == m.kind = "end" /\ indexingTotal > 0
           faster == /\ counted
                     /\ indexingCurrent > 0
                     /\ m.current > indexingCurrent
                     /\ m.gap # "zero"
       IN /\ indexingFirstStarted' = IF reset THEN Len(progLog) + 1 ELSE indexingFirstStarted
          /\ indexingCurrent' = IF reset THEN 0
                                ELSE IF counted THEN m.current
                                ELSE IF finished THEN indexingTotal
                                ELSE indexingCurrent
          /\ indexingTotal' = IF reset THEN 0
                              ELSE IF counted THEN m.total
                              ELSE indexingTotal
          /\ indexingSpeed' = IF reset THEN 0
                              ELSE IF faster THEN 1
                              ELSE indexingSpeed
    /\ progLog' = Append(progLog, m.kind)
    /\ progGap' = m.gap
    /\ progTokens' = Append(progTokens, m.token)
    /\ UNCHANGED <<rd, statusOut>>

\* IsIndexing()
IsIndexing == indexingActive

\* ------------------------------------------------------------ session status

StatusMethod == "session/status"
CapabilitiesMethod == "session/capabilities"

NoStatus == [method |-> "", state |-> "", eta |-> FALSE]

StatusState_ActiveOnly == IF indexingActive THEN "indexing" ELSE "idle"

\* Lines 1007-1015: the state getStatus derives.
StatusState ==
    LET isActive == indexingActive \/ (indexingTotal > 0 /\ indexingCurrent < indexingTotal)
        isComplete == indexingTotal > 0 /\ indexingCurrent >= indexingTotal
    IN IF isActive THEN "indexing" ELSE IF isComplete THEN "complete" ELSE "idle"

\* Lines 1024-1028: whether getStatus adds eta_seconds.
EtaPresent ==
    /\ StatusState = "indexing"
    /\ indexingSpeed > 0
    /\ indexingTotal > indexingCurrent

\* Lines 920-927: an API client's call reaches the case of its method.
StatusCall(s, method) ==
    /\ pc[s] = "idle"
    /\ pc' = [pc EXCEPT ![s] = IF method = StatusMethod THEN "status" ELSE "caps"]
    /\ UNCHANGED <<msg, werr, progVars>>

\* Lines 994-1050: sm.mu.RLock() waits while a writeMessage call holds sm.mu;
\* the rest of getStatus takes openDocsMu and indexingMu, held by others only
\* around updates of memory.
GetStatus(s) ==
    /\ pc[s] = "status"
    /\ mu = NoTask
    /\ statusOut' = [method |-> StatusMethod, state |-> StatusState, eta |-> EtaPresent]
    /\ pc' = [pc EXCEPT ![s] = "idle"]
    /\ UNCHANGED <<msg, werr, indexingActive, indexingCurrent, indexingTotal, indexingSpeed,
                   indexingFirstStarted, progLog, progGap, progTokens>>

\* Lines 923-927: session/capabilities.
GetCapabilities(s) ==
    /\ pc[s] = "caps"
    /\ mu = NoTask
    /\ statusOut' = [method |-> CapabilitiesMethod, state |-> "", eta |-> FALSE]
    /\ pc' = [pc EXCEPT ![s] = "idle"]
    /\ UNCHANGED <<msg, werr, indexingActive, indexingCurrent, indexingTotal, indexingSpeed,
                   indexingFirstStarted, progLog, progGap, progTokens>>

\* ---------------------------------------------------- file watcher: start

WatchedFilesMethod == "workspace/didChangeWatchedFiles"

WatcherModes == {"off", "polling", "fsnotify", "auto"}

Backend_NoFallback(mode, nativeOk) ==
    IF mode = "polling" THEN "polling"
    ELSE IF mode \in {"fsnotify", "auto"} /\ nativeOk THEN "fsnotify"
    ELSE "none"

\* Lines 301-324: the backend startFileWatcher starts in a mode, given
\* whether the fsnotify watcher can be created.
Backend(mode, nativeOk) ==
    IF mode = "off" THEN "none"
    ELSE IF mode = "polling" THEN "polling"
    ELSE IF mode = "fsnotify" THEN (IF nativeOk THEN "fsnotify" ELSE "none")
    ELSE IF nativeOk THEN "fsnotify" ELSE "polling"

\* Line 247: Start() has initialized the session and spawns the goroutine.
StarterSpawn ==
    /\ pc[Starter] = "off"
    /\ pc' = [pc EXCEPT ![Starter] = "sleep"]
    /\ UNCHANGED <<msg, werr, watchVars>>

\* Lines 255-266: after a 5s sleep, leave the loop unless indexing is active.
StarterCheck ==
    /\ pc[Starter] = "sleep"
    /\ pc' = [pc EXCEPT ![Starter] = IF indexingActive THEN "sleep" ELSE "start"]
    /\ UNCHANGED <<msg, werr, watchVars>>

\* Lines 271, 297-325, 328-354, 364-399 and PollingWatcher.Start: start the
\* backend of the mode; the polling backend takes its baseline snapshot.
StartFileWatcher(mode, nativeOk) ==
    /\ pc[Starter] = "start"
    /\ watcherMode' = mode
    /\ nativeWatcher' = IF mode \in {"fsnotify", "auto"}
                        THEN (IF nativeOk THEN "created" ELSE "failed")
                        ELSE nativeWatcher
    /\ LET b == Backend(mode, nativeOk) IN
        /\ pc' = [pc EXCEPT ![Starter] = "done",
                            ![Poller] = IF b = "polling" THEN "pwIdle" ELSE @,
                            ![Fsn] = IF b = "fsnotify" THEN "fsnLoop" ELSE @]
        /\ fileMap' = IF b = "polling" THEN fs ELSE fileMap
    /\ UNCHANGED <<msg, werr, fs, fsChanges, oldFiles, fsEvents, pendingChanges,
                   timerArmed>>

\* --------------------------------------------------------- the workspace

\* The fsnotify operation a change of a file's modification time shows as.
EventOps(before, after) ==
    IF before = 0 THEN {"Create"} ELSE IF after = 0 THEN {"Remove"} ELSE {"Write"}

\* A file is created, modified or deleted; a running fsnotify watcher gets
\* the event.
FsChange(p, t) ==
    /\ fsChanges < MaxFsChanges
    /\ t # fs[p]
    /\ fsChanges' = fsChanges + 1
    /\ fs' = [fs EXCEPT ![p] = t]
    /\ fsEvents' = IF pc[Fsn] # "off"
                    THEN Append(fsEvents, [name |-> p, ops |-> EventOps(fs[p], t)])
                    ELSE fsEvents
    /\ UNCHANGED <<taskVars, watcherMode, fileMap, oldFiles, pendingChanges, timerArmed>>

\* pathToURI / "file://" + filepath.ToSlash(name)
PathToURI(p) == <<"file://", p>>

FileChange(p, type) == [uri |-> PathToURI(p), type |-> type]

\* ------------------------------------------------------- polling watcher

Diff_NoDeleted(newFiles, old) ==
    {FileChange(p, 1) : p \in {q \in Paths : newFiles[q] # 0 /\ old[q] = 0}}
        \cup {FileChange(p, 2) :
                p \in {q \in Paths : newFiles[q] # 0 /\ old[q] # 0 /\ newFiles[q] # old[q]}}

\* Lines 132-161: the changes between two snapshots.
Diff(newFiles, old) ==
    {FileChange(p, 1) : p \in {q \in Paths : newFiles[q] # 0 /\ old[q] = 0}}
        \cup {FileChange(p, 2) :
                p \in {q \in Paths : newFiles[q] # 0 /\ old[q] # 0 /\ newFiles[q] # old[q]}}
        \cup {FileChange(p, 3) : p \in {q \in Paths : old[q] # 0 /\ newFiles[q] = 0}}

\* Lines 115-116, 122-163: a tick: scan, swap the snapshot in, compare.
PollTick ==
    /\ pc[Poller] = "pwIdle"
    /\ oldFiles' = fileMap
    /\ fileMap' = fs
    /\ IF Diff(fs, fileMap) = {}
       THEN UNCHANGED <<pc, msg>>
       ELSE /\ pc' = [pc EXCEPT ![Poller] = "pwCheck"]
            /\ msg' = [msg EXCEPT ![Poller] = Msg(WatchedFilesMethod, 0, "", Diff(fs, fileMap))]
    /\ UNCHANGED <<werr, watcherMode, fs, fsChanges, fsEvents, pendingChanges, timerArmed>>

\* Lines 178-188: skip the notification while the LSP is indexing, else send.
PollCheckIndexing ==
    /\ pc[Poller] = "pwCheck"
    /\ IF IsIndexing
       THEN /\ pc' = [pc EXCEPT ![Poller] = "pwIdle"]
            /\ msg' = [msg EXCEPT ![Poller] = NoMsg]
       ELSE /\ pc' = [pc EXCEPT ![Poller] = "wLock"]
            /\ UNCHANGED msg
    /\ UNCHANGED <<werr, watchVars>>

\* Lines 185-189: sendNotifyFunc returned; wait for the next tick.
PollSent ==
    /\ pc[Poller] = "wrote"
    /\ pc' = [pc EXCEPT ![Poller] = "pwIdle"]
    /\ msg' = [msg EXCEPT ![Poller] = NoMsg]
    /\ werr' = [werr EXCEPT ![Poller] = FALSE]
    /\ UNCHANGED watchVars

\* ------------------------------------------------------ fsnotify watcher

\* Lines 441-456: the pending change map after an event.
ApplyEvent(changes, ev) ==
    IF "Create" \in ev.ops THEN [changes EXCEPT ![ev.name] = 1]
    ELSE IF "Write" \in ev.ops
    THEN (IF changes[ev.name] = 0 THEN [changes EXCEPT ![ev.name] = 2] ELSE changes)
    ELSE IF "Remove" \in ev.ops \/ "Rename" \in ev.ops
    THEN [changes EXCEPT ![ev.name] = 3]
    ELSE changes

\* Lines 417-459: receive an event, record it, restart the debounce timer.
FsnEvent ==
    /\ pc[Fsn] = "fsnLoop"
    /\ fsEvents # <<>>
    /\ fsEvents' = Tail(fsEvents)
    /\ pendingChanges' = ApplyEvent(pendingChanges, Head(fsEvents))
    /\ timerArmed' = TRUE
    /\ UNCHANGED <<taskVars, watcherMode, fs, fsChanges, fileMap, oldFiles>>

\* Lines 461-486: the debounce timer fires: send the batch and clear it.
FsnDebounce ==
    /\ pc[Fsn] = "fsnLoop"
    /\ timerArmed
    /\ timerArmed' = FALSE
    /\ IF \E p \in Paths : pendingChanges[p] # 0
       THEN /\ msg' = [msg EXCEPT ![Fsn] =
                        Msg(WatchedFilesMethod, 0, "",
                            {FileChange(p, pendingChanges[p]) :
                                p \in {q \in Paths : pendingChanges[q] # 0}})]
            /\ pendingChanges' = [p \in Paths |-> 0]
            /\ pc' = [pc EXCEPT ![Fsn] = "wLock"]
       ELSE UNCHANGED <<pc, msg, pendingChanges>>
    /\ UNCHANGED <<werr, watcherMode, fs, fsChanges, fileMap, oldFiles, fsEvents>>

\* Lines 479-483: sendNotification returned; back to the select.
FsnSent ==
    /\ pc[Fsn] = "wrote"
    /\ pc' = [pc EXCEPT ![Fsn] = "fsnLoop"]
    /\ msg' = [msg EXCEPT ![Fsn] = NoMsg]
    /\ werr' = [werr EXCEPT ![Fsn] = FALSE]
    /\ UNCHANGED watchVars

\* --------------------------------------------------- malformed LSP frames

\* A JSON id value that is no number, string or null (an object, a boolean).
OtherId == [kind |-> "other", n |-> 0, s |-> <<>>]

\* Lines 49-74: UnmarshalJSON returns its error.
UnmarshalFails(raw) == raw.kind = "other"

\* The header block has no Content-Length (or its value is 0), or a value
\* that is no integer.
FramingDefects == {"noContentLength", "badContentLength"}

\* The frames of the child that are no well-formed message.
Malformed ==
    {LspMsg(AbsentId, "", FALSE, k) : k \in FramingDefects \cup {"badJson"}}
        \cup {LspMsg(OtherId, "", FALSE, "")}

\* Lines 1108-1142: readLSPMessage returns an error for the frame.
ReadFails(m) == m.kind \in FramingDefects

\* Lines 652-665: json.Unmarshal(msg, &baseMsg) returns an error.
ParseFails(m) == m.kind = "badJson" \/ UnmarshalFails(m.id)

\* Lines 645-665: the child's next frame m is malformed: a framing error ends
\* the read loop, a body that does not parse is logged and skipped.
ReaderReadMalformed(m) ==
    /\ rd.pc = "read"
    /\ lspSent < MaxLspMsgs
    /\ lspSent' = lspSent + 1
    /\ ReadFails(m) \/ ParseFails(m)
    /\ rd' = [pc |-> IF ReadFails(m) THEN "exited" ELSE "read", m |-> m, late |-> FALSE]

\* ------------------------------------------------------------ API clients

\* The connection whose HandleClient goroutine is followed.
ApiClients == {"c1"}

\* sendAPIError(conn, 0, -32700, "Parse error")
ParseErrorCode == -32700

\* sendAPIError(conn, req.ID, -32603, err.Error())
InternalErrorCode == -32603

\* The methods handleAPIRequest forwards with sendRequest (one of them).
ForwardedMethods == {"textDocument/hover"}

\* A line of an API client: blank, or text that is a JSON object or not, and
\* for an object its id and method.
ApiLine(blank, json, id, method) ==
    [blank |-> blank, json |-> json, id |-> id, method |-> method]

ApiLinesSent ==
    {ApiLine(TRUE, FALSE, AbsentId, ""), ApiLine(FALSE, FALSE, AbsentId, "")}
        \cup {ApiLine(FALSE, TRUE, id, m) :
                id \in {NumId(7), StrId(<<"7">>)},
                m \in ForwardedMethods \cup {"foo/bar"}}

NoRequest == [ok |-> FALSE, id |-> 0, method |-> ""]

\* every line decodes
DecodeRequest_Lenient(line) == [ok |-> TRUE, id |-> 0, method |-> line.method]

\* Lines 842-849: json.Unmarshal of the line into req, whose ID is an int64.
DecodeRequest(line) ==
    IF line.json /\ line.id.kind \in {"num", "null", "absent"}
    THEN [ok |-> TRUE, id |-> line.id.n, method |-> line.method]
    ELSE NoRequest

\* The JSON-RPC error the child answers with.
LspError == [code |-> -32602, message |-> "Invalid params"]

\* err.Error() of what sendRequest returned.
ErrorText(r) ==
    IF r = "lsperr" THEN <<"lsp error ", LspError.code, ": ", LspError.message>>
    ELSE IF r = "timeout" THEN <<"context deadline exceeded">>
    ELSE <<"write error">>

\* Lines 890-901: the error response, and what it answers.
APIError(id, code, message, cause) ==
    [id |-> id, isError |-> TRUE, code |-> code, message |-> message, cause |-> cause]

\* Lines 868-878: the result response.
APIResult(id) ==
    [id |-> id, isError |-> FALSE, code |-> 0, message |-> <<>>, cause |-> "result"]

\* Lines 141-147: main accepts a connection and starts its HandleClient.
Accept(c) ==
    /\ conn[c] = "none"
    /\ conn' = [conn EXCEPT ![c] = "open"]
    /\ UNCHANGED <<apiLines, apiReq, apiOut, taskVars, reqVars>>

\* Lines 821-863, 904-990: HandleClient reads a line: a blank one is skipped,
\* one that does not decode is answered with the parse error, a forwarded
\* method starts sendRequest, any other method is answered with an error.
HandleClientRead(c, line) ==
    /\ conn[c] = "open"
    /\ pc[c] = "idle"
    /\ apiLines < MaxApiLines
    /\ apiLines' = apiLines + 1
    /\ UNCHANGED conn
    /\ LET req == DecodeRequest(line) IN
        IF line.blank
        THEN UNCHANGED <<apiReq, apiOut, taskVars, reqVars>>
        ELSE IF ~req.ok
        THEN /\ apiOut' = [apiOut EXCEPT ![c] =
                            Append(@, APIError(0, ParseErrorCode, <<"Parse error">>, "parse"))]
             /\ UNCHANGED <<apiReq, taskVars, reqVars>>
        ELSE IF req.method \in ForwardedMethods
        THEN /\ apiReq' = [apiReq EXCEPT ![c] = req]
             /\ SendRequestStart(c)
             /\ UNCHANGED apiOut
        ELSE /\ apiReq' = [apiReq EXCEPT ![c] = req]
             /\ apiOut' = [apiOut EXCEPT ![c] =
                            Append(@, APIError(req.id, InternalErrorCode,
                                               <<"unknown method: ", req.method>>, "unknown"))]
             /\ UNCHANGED <<taskVars, reqVars>>

\* Lines 858-883: handleAPIRequest returned what sendRequest returned; the
\* response is written to the connection.
HandleClientReply(c) ==
    /\ conn[c] = "open"
    /\ pc[c] = "done"
    /\ apiOut' = [apiOut EXCEPT ![c] =
                    Append(@, IF ret[c] = "result"
                              THEN APIResult(apiReq[c].id)
                              ELSE APIError(apiReq[c].id, InternalErrorCode,
                                            ErrorText(ret[c]), ret[c]))]
    /\ pc' = [pc EXCEPT ![c] = "idle"]
    /\ UNCHANGED <<conn, apiLines, apiReq, msg, werr, reqVars>>

\* Lines 824-832: the client closes the connection; HandleClient returns.
HandleClientEOF(c) ==
    /\ conn[c] = "open"
    /\ pc[c] = "idle"
    /\ conn' = [conn EXCEPT ![c] = "closed"]
    /\ UNCHANGED <<apiLines, apiReq, apiOut, taskVars, reqVars>>

\* --------------------------------------------------------------- shutdown

ExitMethod == "exit"

\* Lines 128-133: a termination signal arrives.
Signal ==
    /\ pc[Sig] = "off"
    /\ pc' = [pc EXCEPT ![Sig] = "stop"]
    /\ UNCHANGED <<msg, werr, stdinOpen, daemon>>

SigStopWatchers_NoStop ==
    /\ pc[Sig] = "stop"
    /\ pc' = [pc EXCEPT ![Sig] = "wLock"]
    /\ msg' = [msg EXCEPT ![Sig] = Msg(ExitMethod, 0, "", {})]
    /\ UNCHANGED <<werr, stdinOpen, daemon, watcherStop>>

\* Lines 278-291: Stop() closes the stop channel of each watcher that was
\* started (PollingWatcher.Stop, close(sm.watcherStop), sm.watcher.Close()),
\* then sends exit.
SigStopWatchers ==
    /\ pc[Sig] = "stop"
    /\ watcherStop' = [w \in {Poller, Fsn} |-> IF pc[w] # "off" THEN "closed" ELSE "skipped"]
    /\ pc' = [pc EXCEPT ![Sig] = "wLock"]
    /\ msg' = [msg EXCEPT ![Sig] = Msg(ExitMethod, 0, "", {})]
    /\ UNCHANGED <<werr, stdinOpen, daemon>>

\* polling_watcher.go lines 112-114: the loop receives from the closed stopChan.
PollStop ==
    /\ pc[Poller] = "pwIdle"
    /\ watcherStop[Poller] = "closed"
    /\ pc' = [pc EXCEPT ![Poller] = "off"]
    /\ UNCHANGED <<msg, werr>>

\* Lines 413-420: the loop receives from the closed watcherStop or Events.
FsnStop ==
    /\ pc[Fsn] = "fsnLoop"
    /\ watcherStop[Fsn] = "closed"
    /\ pc' = [pc EXCEPT ![Fsn] = "off"]
    /\ UNCHANGED <<msg, werr>>

\* Line 292: sm.cmd.Process.Kill(), whatever sendNotification returned.
SigKill ==
    /\ pc[Sig] = "wrote"
    /\ stdinOpen' = FALSE
    /\ pc' = [pc EXCEPT ![Sig] = "killed"]
    /\ msg' = [msg EXCEPT ![Sig] = NoMsg]
    /\ werr' = [werr EXCEPT ![Sig] = FALSE]
    /\ UNCHANGED daemon

\* Lines 136-137: listener.Close(); os.Exit(0)
SigExit ==
    /\ pc[Sig] = "killed"
    /\ pc' = [pc EXCEPT ![Sig] = "exited"]
    /\ daemon' = "exited"
    /\ UNCHANGED <<msg, werr, stdinOpen>>

\* The process runs: no goroutine takes a step after os.Exit.
Running == daemon = "up"

\* ------------------------------------------------------------ framed codec

\* The bytes of a stream are one-character strings.
ContentLengthPrefix ==
    <<"C", "o", "n", "t", "e", "n", "t", "-", "L", "e", "n", "g", "t", "h", ":">>

CRLF == <<"\r", "\n">>

\* A header line a peer may add (the base protocol's Content-Type).
ContentTypeLine ==
    <<"C", "o", "n", "t", "e", "n", "t", "-", "T", "y", "p", "e", ":", " ", "x">> \o CRLF

\* %d of fmt.Sprintf.
RECURSIVE FormatInt(_)
FormatInt(n) ==
    IF n < 10 THEN <<Digits[n + 1]>>
    ELSE FormatInt(n \div 10) \o <<Digits[(n % 10) + 1]>>

BodyLength_OneMore(body) == Len(body) + 1

\* len(body) at line 626.
BodyLength(body) == Len(body)

ContentLengthLine(body) ==
    ContentLengthPrefix \o <<" ">> \o FormatInt(BodyLength(body)) \o CRLF

\* Lines 626-636: the header, then the body.
WriteMessageBytes(body) == ContentLengthLine(body) \o CRLF \o body

\* A frame as a peer may send it: a further header line before or after the
\* Content-Length line.
ExtraHeaders == {"none", "before", "after"}

FrameBytes(body, extra) ==
    CASE extra = "none" -> WriteMessageBytes(body)
      [] extra = "before" -> ContentTypeLine \o ContentLengthLine(body) \o CRLF \o body
      [] extra = "after" -> ContentLengthLine(body) \o ContentTypeLine \o CRLF \o body

IsSpace(ch) == ch \in {" ", "\t", "\n", "\r"}

RECURSIVE TrimLeft(_)
TrimLeft(s) == IF s # <<>> /\ IsSpace(Head(s)) THEN TrimLeft(Tail(s)) ELSE s

RECURSIVE TrimRight(_)
TrimRight(s) ==
    IF s # <<>> /\ IsSpace(s[Len(s)]) THEN TrimRight(SubSeq(s, 1, Len(s) - 1)) ELSE s

TrimSpace(s) == TrimRight(TrimLeft(s))

HasPrefix(s, prefix) == Len(s) >= Len(prefix) /\ SubSeq(s, 1, Len(prefix)) = prefix

\* reader.ReadString('\n'): the bytes up to and including the first newline.
ReadString(s) ==
    LET ends == {i \in 1..Len(s) : s[i] = "\n"}
    IN IF ends = {} THEN [ok |-> FALSE, line |-> s, rest |-> <<>>]
       ELSE LET i == CHOOSE e \in ends : \A f \in ends : e <= f
            IN [ok |-> TRUE, line |-> SubSeq(s, 1, i), rest |-> SubSeq(s, i + 1, Len(s))]

\* Lines 1111-1128: the header loop, contentLength being what was parsed so far.
RECURSIVE ReadHeaders(_, _)
ReadHeaders(s, contentLength) ==
    LET r == ReadString(s)
        line == TrimSpace(r.line)
        lengthStr == TrimSpace(SubSeq(line, Len(ContentLengthPrefix) + 1, Len(line)))
    IN IF ~r.ok THEN [err |-> "EOF", n |-> contentLength, rest |-> <<>>]
       ELSE IF line = <<>> THEN [err |-> "", n |-> contentLength, rest |-> r.rest]
       ELSE IF HasPrefix(line, ContentLengthPrefix)
            THEN IF ParseInt(lengthStr).ok
                 THEN ReadHeaders(r.rest, ParseInt(lengthStr).v)
                 ELSE [err |-> "invalid Content-Length", n |-> contentLength, rest |-> r.rest]
       ELSE ReadHeaders(r.rest, contentLength)

\* Lines 1108-1142.
ReadLSPMessage(s) ==
    LET h == ReadHeaders(s, 0)
    IN IF h.err # "" THEN [err |-> h.err, body |-> <<>>, rest |-> h.rest]
       ELSE IF h.n = 0
            THEN [err |-> "missing Content-Length header", body |-> <<>>, rest |-> h.rest]
       ELSE IF Len(h.rest) < h.n THEN [err |-> "EOF", body |-> <<>>, rest |-> <<>>]
       ELSE [err |-> "", body |-> SubSeq(h.rest, 1, h.n),
             rest |-> SubSeq(h.rest, h.n + 1, Len(h.rest))]

\* The bodies given to the codec: json.Marshal gives at least one byte; a body
\* may hold line ends and bytes of a header.
BodyAlphabet == {"{", "\n"}

FrameBodies ==
    UNION {[1..n -> BodyAlphabet] : n \in 1..MaxBodyLen}
        \cup {[i \in 1..(10 * k) |-> "{"] : k \in 1..MaxLongBodies}

FramingAt(todo, written, stream, out, err) ==
    [todo |-> todo, written |-> written, stream |-> stream, out |-> out, err |-> err]

FramingIdle == framing = FramingAt(<<>>, <<>>, <<>>, <<>>, "")

\* One frame is written to the stream.
WriteFrame(extra) ==
    /\ framing.todo # <<>>
    /\ framing' = [framing EXCEPT
                     !.todo = Tail(@),
                     !.written = Append(@, <<Head(framing.todo), extra>>),
                     !.stream = @ \o FrameBytes(Head(framing.todo), extra)]

\* One call of readLSPMessage on the stream (it waits while there is nothing).
ReadFrame ==
    /\ framing.stream # <<>>
    /\ framing.err = ""
    /\ LET r == ReadLSPMessage(framing.stream)
       IN framing' = [framing EXCEPT
                        !.stream = r.rest,
                        !.out = IF r.err = "" THEN Append(@, r.body) ELSE @,
                        !.err = r.err]

\* -------------------------------------------------------------- path mapper

\* strings.ReplaceAll(s, "\\", "/")
SlashesOf(s) == [i \in 1..Len(s) |-> IF s[i] = "\\" THEN "/" ELSE s[i]]

\* The elements of a path between its slashes, empty ones included.
RECURSIVE SplitPath(_, _, _)
SplitPath(s, cur, acc) ==
    IF s = <<>> THEN Append(acc, cur)
    ELSE IF Head(s) = "/" THEN SplitPath(Tail(s), <<>>, Append(acc, cur))
    ELSE SplitPath(Tail(s), Append(cur, Head(s)), acc)

\* filepath.Clean keeps an element, drops "" and ".", and lets ".." remove
\* the element before it (a ".." that has nothing to remove stays in a
\* relative path and goes in a rooted one).
RECURSIVE CleanElements(_, _, _)
CleanElements(elems, acc, rooted) ==
    IF elems = <<>> THEN acc
    ELSE LET e == Head(elems)
             dotdot == <<".", ".">>
         IN IF e = <<>> \/ e = <<".">> THEN CleanElements(Tail(elems), acc, rooted)
            ELSE IF e = dotdot
                 THEN IF acc # <<>> /\ acc[Len(acc)] # dotdot
                      THEN CleanElements(Tail(elems), SubSeq(acc, 1, Len(acc) - 1), rooted)
                      ELSE IF rooted THEN CleanElements(Tail(elems), acc, rooted)
                      ELSE CleanElements(Tail(elems), Append(acc, e), rooted)
            ELSE CleanElements(Tail(elems), Append(acc, e), rooted)

RECURSIVE JoinElements(_)
JoinElements(elems) ==
    IF elems = <<>> THEN <<>>
    ELSE IF Len(elems) = 1 THEN Head(elems)
    ELSE Head(elems) \o <<"/">> \o JoinElements(Tail(elems))

\* filepath.Clean on a slash-separated path.
Clean(s) ==
    LET rooted == s # <<>> /\ Head(s) = "/"
        body == JoinElements(CleanElements(SplitPath(s, <<>>, <<>>), <<>>, rooted))
    IN IF rooted THEN <<"/">> \o body
       ELSE IF body = <<>> THEN <<".">>
       ELSE body

TrimPrefix(s, prefix) ==
    IF HasPrefix(s, prefix) THEN SubSeq(s, Len(prefix) + 1, Len(s)) ELSE s

\* The mapper NewDockerPathMapper("/r", "/p") makes.
HostRoot == <<"/", "r">>
ContainerRoot == <<"/", "p">>

\* Line 105: strings.HasPrefix(cleanPath, normalizedHostRoot)
WithinRoot(cleanPath, root) == HasPrefix(cleanPath, root)

\* Lines 87-126, the mapper being enabled.
HostToContainer(hostPath) ==
    LET cleanPath == Clean(SlashesOf(hostPath))
        normalizedHostRoot == SlashesOf(HostRoot)
        relativePath == TrimPrefix(TrimPrefix(cleanPath, normalizedHostRoot), <<"/">>)
    IN IF hostPath = <<>> THEN [err |-> TRUE, path |-> <<>>]
       ELSE IF ~WithinRoot(cleanPath, normalizedHostRoot) THEN [err |-> TRUE, path |-> <<>>]
       ELSE IF relativePath = <<>> THEN [err |-> FALSE, path |-> Clean(ContainerRoot)]
       ELSE [err |-> FALSE, path |-> Clean(Clean(ContainerRoot \o <<"/">> \o relativePath))]

\* The host paths given to the mapper.
PathAlphabet == {"/", "\\", ".", "r", "x"}

HostPaths == UNION {[1..n -> PathAlphabet] : n \in 0..MaxPathLen}

PathmapAt(at, hostPath, err, path) ==
    [pc |-> at, hostPath |-> hostPath, err |-> err, path |-> path]

PathIdle == pathmap = PathmapAt("idle", <<>>, FALSE, <<>>)

HostToContainerCall ==
    /\ pathmap.pc = "input"
    /\ LET r == HostToContainer(pathmap.hostPath)
       IN pathmap' = PathmapAt("returned", pathmap.hostPath, r.err, r.path)

\* ------------------------------------- a PollingWatcher's Start and Stop

\* The loops a watcher may start: one for each Start call.
Loops == 1..MaxCalls

\* A loop: not started ("none"), waiting in its select, inside
\* checkForChanges ("tick"), or returned; whether its ticker has a tick
\* waiting; and (history) whether a Stop call has returned since it started.
Loop(at, ready, stopped) == [at |-> at, ready |-> ready, stopped |-> stopped]

PollAt(calls, running, stopChan, scanning, closing, loops, panicked, lateTick) ==
    [calls |-> calls, running |-> running, stopChan |-> stopChan, scanning |-> scanning,
     closing |-> closing, loops |-> loops, panicked |-> panicked, lateTick |-> lateTick]

\* NewPollingWatcher (lines 50-61): not running, stopChan open.
NewPollingWatcher ==
    PollAt(0, FALSE, "open", 0, 0, [i \in Loops |-> Loop("none", FALSE, FALSE)], FALSE, FALSE)

PollIdle == poll = [NewPollingWatcher EXCEPT !.calls = MaxCalls]

Alive(l) == l.at \in {"select", "tick"}

\* Lines 64-77: Start() returns at once when running, else sets running and
\* begins the initial scan.
PollStart ==
    /\ ~poll.panicked
    /\ poll.calls < MaxCalls
    /\ poll' = IF poll.running
               THEN [poll EXCEPT !.calls = @ + 1]
               ELSE [poll EXCEPT !.calls = @ + 1, !.running = TRUE, !.scanning = @ + 1]

\* Lines 77-89: the initial scan is done; Start stores it, starts a loop
\* (with a new ticker) and returns.
PollStartLoop ==
    /\ ~poll.panicked
    /\ poll.scanning > 0
    /\ LET i == CHOOSE j \in Loops :
                    poll.loops[j].at = "none" /\ \A k \in 1..(j - 1) : poll.loops[k].at # "none"
       IN poll' = [poll EXCEPT !.scanning = @ - 1,
                               !.loops[i] = Loop("select", FALSE, FALSE)]

\* Lines 93-100: Stop() returns at once when not running, else clears running.
PollStopCall ==
    /\ ~poll.panicked
    /\ poll.calls < MaxCalls
    /\ poll' = IF poll.running
               THEN [poll EXCEPT !.calls = @ + 1, !.running = FALSE, !.closing = @ + 1]
               ELSE [poll EXCEPT !.calls = @ + 1]

\* Lines 102-104: close(pw.stopChan), which panics on a closed channel; then
\* Stop returns.
PollStopClose ==
    /\ ~poll.panicked
    /\ poll.closing > 0
    /\ poll' = IF poll.stopChan = "closed"
               THEN [poll EXCEPT !.panicked = TRUE]
               ELSE [poll EXCEPT
                        !.closing = @ - 1,
                        !.stopChan = "closed",
                        !.loops = [i \in Loops |->
                                    IF Alive(poll.loops[i])
                                    THEN [poll.loops[i] EXCEPT !.stopped = TRUE]
                                    ELSE poll.loops[i]]]

\* The interval has passed: the loop's ticker sends on ticker.C (buffer of 1).
TickerFires(i) ==
    /\ ~poll.panicked
    /\ Alive(poll.loops[i])
    /\ ~poll.loops[i].ready
    /\ poll' = [poll EXCEPT !.loops[i].ready = TRUE]

\* Lines 112-116: the select takes the ticker case (with both cases ready it
\* takes either) and checkForChanges begins.
LoopTick(i) ==
    /\ ~poll.panicked
    /\ poll.loops[i].at = "select"
    /\ poll.loops[i].ready
    /\ poll' = [poll EXCEPT !.loops[i].at = "tick", !.loops[i].ready = FALSE,
                            !.lateTick = @ \/ poll.loops[i].stopped]

\* Line 116: checkForChanges returns.
LoopTickDone(i) ==
    /\ ~poll.panicked
    /\ poll.loops[i].at = "tick"
    /\ poll' = [poll EXCEPT !.loops[i].at = "select"]

\* Lines 112-114: the select takes the stopChan case: the loop returns.
LoopReturn(i) ==
    /\ ~poll.panicked
    /\ poll.loops[i].at = "select"
    /\ poll.stopChan = "closed"
    /\ poll' = [poll EXCEPT !.loops[i].at = "returned"]

\* ------------------------------------------------- the daemon's start

BootClients == 1..MaxClients

InitializeMethod == "initialize"
InitializedMethod == "initialized"

BootAt(at, lsp, reply, initialized, written, listener, clients) ==
    [at |-> at, lsp |-> lsp, reply |-> reply, initialized |-> initialized,
     written |-> written, listener |-> listener, clients |-> clients]

\* The daemon is up and serving.
BootIdle ==
    boot = BootAt("serving", "alive", "result", TRUE,
                  <<InitializeMethod, InitializedMethod>>, TRUE,
                  [c \in BootClients |-> "none"])

\* Lines 116-118, 218-239: Start() spawns the child and the reader; a failure
\* is fatal (log.Fatalf).
StartChild(ok) ==
    /\ boot.at = "start"
    /\ boot' = [boot EXCEPT !.at = IF ok THEN "initialize" ELSE "fatal",
                            !.lsp = IF ok THEN "alive" ELSE "dead"]

\* Lines 538, 594-596: initialize() calls sendRequest, which writes the
\* request; a write error is returned, and is fatal.
InitializeWrite ==
    /\ boot.at = "initialize"
    /\ boot' = IF boot.lsp = "alive"
               THEN [boot EXCEPT !.at = "await", !.written = Append(@, InitializeMethod)]
               ELSE [boot EXCEPT !.at = "fatal"]

\* The child answers the initialize request with a result or an error.
LspReply(kind) ==
    /\ boot.at = "await"
    /\ boot.lsp = "alive"
    /\ boot.reply = "none"
    /\ boot' = [boot EXCEPT !.reply = kind]

\* Lines 598-603, 539-546: the response arrives: an error is returned (and is
\* fatal), a result is stored and the session marked initialized.
InitializeReceive ==
    /\ boot.at = "await"
    /\ boot.reply # "none"
    /\ boot' = IF boot.reply = "result"
               THEN [boot EXCEPT !.at = "notify", !.initialized = TRUE]
               ELSE [boot EXCEPT !.at = "fatal"]

\* Lines 535, 604-605: the 60s deadline passes first.
InitializeTimeout ==
    /\ boot.at = "await"
    /\ boot' = [boot EXCEPT !.at = "fatal"]

\* Lines 561-563: the initialized notification is sent; a write error is
\* logged as a warning.
InitializedNotify ==
    /\ boot.at = "notify"
    /\ boot' = [boot EXCEPT
                !.at = "sleep",
                !.written = IF boot.lsp = "alive" THEN Append(@, InitializedMethod) ELSE @]

\* Lines 567-569, 242-249: after a 5s sleep initialize returns nil, and so
\* does Start.
InitializeReturn ==
    /\ boot.at = "sleep"
    /\ boot' = [boot EXCEPT !.at = "listen"]

\* Lines 121-126: net.Listen; a failure is fatal.
Listen(ok) ==
    /\ boot.at = "listen"
    /\ boot' = [boot EXCEPT !.at = IF ok THEN "serving" ELSE "fatal", !.listener = ok]

\* The child exits.
BootLspDies ==
    /\ boot.lsp = "alive"
    /\ boot.at \notin {"start", "fatal"}
    /\ boot' = [boot EXCEPT !.lsp = "dead"]

\* Lines 141-147: a client connects to the open listener.
ClientConnect(c) ==
    /\ boot.listener
    /\ boot.clients[c] = "none"
    /\ boot' = [boot EXCEPT !.clients[c] = "open"]

\* The client sends a request line: a local method (session/status) or one
\* forwarded to the LSP.
ClientRequest(c, local) ==
    /\ boot.clients[c] \in {"open", "answered", "refused"}
    /\ boot' = [boot EXCEPT !.clients[c] = IF local THEN "askedLocal" ELSE "asked"]

\* The client closes its connection.
ClientClose(c) ==
    /\ boot.clients[c] \in {"open", "answered", "refused"}
    /\ boot' = [boot EXCEPT !.clients[c] = "closed"]

\* HandleClient writes the response to the request: a result, or the error
\* of a forwarded call whose write failed.
ClientResponse(c) ==
    /\ boot.clients[c] \in {"asked", "askedLocal"}
    /\ boot' = [boot EXCEPT !.clients[c] =
                    IF boot.clients[c] = "asked" /\ boot.lsp = "dead"
                    THEN "refused" ELSE "answered"]

\* ------------------------------------------- the debounce loop on its own

\* The operations of an fsnotify event.
FsnotifyOps == {"Create", "Write", "Remove", "Rename", "Chmod"}

\* A file of the workspace that is not watched (no .bsl / .os extension).
OtherNames == {"notes.txt"}

Event(name, op) == [name |-> name, ops |-> {op}]

\* The events fsnotify delivers on sm.watcher.Events.
FsnotifyEvents ==
    {Event(p, op) : p \in Paths, op \in FsnotifyOps}
        \cup {Event(n, "Write") : n \in OtherNames}

\* What timer.Reset does to a value the timer has already sent on its channel
\* and the loop has not received: a build with Go before 1.23 leaves it in
\* the (buffered) channel, a later one discards it.
TimerChannels == {"buffered", "synchronous"}

NoChanges == [p \in Paths |-> 0]

DebounceAt(timers, events, emitted, pendingMap, batch, running, tick, quiet, sent) ==
    [timers |-> timers, events |-> events, emitted |-> emitted,
     pendingChanges |-> pendingMap, batch |-> batch,
     running |-> running, tick |-> tick, quiet |-> quiet, sent |-> sent]

DebounceIdle ==
    debounce = DebounceAt("synchronous", <<>>, MaxEvents, NoChanges,
                          [p \in Paths |-> <<>>], FALSE, FALSE, TRUE, <<>>)

\* fsnotify puts an event on sm.watcher.Events.
FsnotifyEmit(ev) ==
    /\ debounce.emitted < MaxEvents
    /\ debounce' = [debounce EXCEPT !.events = Append(@, ev), !.emitted = @ + 1]

\* Lines 417-459: the loop receives an event; an event of a watched file is
\* recorded in pendingChanges and restarts the timer (the batch and quiet
\* fields are history: the events recorded since the last batch, and whether
\* 500ms have passed since the last event).
DebounceEvent ==
    /\ debounce.events # <<>>
    /\ LET ev == Head(debounce.events) IN
        debounce' =
            IF ev.name \notin Paths
            THEN [debounce EXCEPT !.events = Tail(@)]
            ELSE [debounce EXCEPT
                    !.events = Tail(@),
                    !.pendingChanges = ApplyEvent(@, ev),
                    !.batch[ev.name] = Append(@, CHOOSE op \in ev.ops : TRUE),
                    !.running = TRUE,
                    !.tick = IF debounce.timers = "synchronous" THEN FALSE ELSE @,
                    !.quiet = FALSE]

\* 500ms after the last Reset the timer sends on debounceTimer.C.
TimerExpires ==
    /\ debounce.running
    /\ debounce' = [debounce EXCEPT !.running = FALSE, !.tick = TRUE, !.quiet = TRUE]

\* Lines 461-486: the loop receives from debounceTimer.C: a non-empty
\* pendingChanges is sent as one batch and replaced by an empty map.
DebounceFire ==
    /\ debounce.tick
    /\ debounce' =
        IF debounce.pendingChanges # NoChanges
        THEN [debounce EXCEPT
                !.tick = FALSE,
                !.sent = Append(@, [changes |->
                                        {FileChange(p, debounce.pendingChanges[p]) :
                                            p \in {q \in Paths : debounce.pendingChanges[q] # 0}},
                                    quiet |-> debounce.quiet]),
                !.pendingChanges = NoChanges,
                !.batch = [p \in Paths |-> <<>>]]
        ELSE [debounce EXCEPT !.tick = FALSE]

\* ------------------------------------------------------- the parallel scan

ScanWorkers == 1..MaxWorkers

RootDir == "root"

\* A directory entry: a watched file (.bsl / .os), another file, a directory,
\* or a directory processDir skips (hidden, node_modules, vendor).
Entry(name, kind) == [name |-> name, kind |-> kind]

\* The workspaces scanned: directory -> its entries, as os.ReadDir lists them.
ChainTree ==
    [d \in {RootDir, "a", "b"} |->
        CASE d = RootDir -> <<Entry("f.bsl", "file"), Entry("a", "dir")>>
          [] d = "a" -> <<Entry("b", "dir"), Entry("g.os", "file")>>
          [] d = "b" -> <<Entry("h.bsl", "file"), Entry("h.txt", "other")>>]

FanTree ==
    [d \in {RootDir, "a", "b"} |->
        CASE d = RootDir -> <<Entry("a", "dir"), Entry("b", "dir"), Entry(".git", "skipped")>>
          [] d = "a" -> <<Entry("g.os", "file")>>
          [] d = "b" -> <<Entry("h.bsl", "file")>>]

Trees == {ChainTree, FanTree}

\* The watched files of a workspace; the directories of a tree are those
\* reached from the root through directories that are not skipped.
WatchedFiles(tree) ==
    UNION {{tree[d][i].name : i \in {j \in DOMAIN tree[d] : tree[d][j].kind = "file"}} :
            d \in DOMAIN tree}

ScanAt(tree) ==
    [tree |-> tree,
     dirs |-> <<RootDir>>,
     closed |-> FALSE,
     activeWorkers |-> 0,
     wpc |-> [w \in ScanWorkers |-> "range"],
     dir |-> [w \in ScanWorkers |-> ""],
     todo |-> [w \in ScanWorkers |-> <<>>],
     monitor |-> "sleep",
     result |-> {},
     returned |-> FALSE]

ScanIdle == scan = [ScanAt(ChainTree) EXCEPT !.dirs = <<>>, !.returned = TRUE]

\* No goroutine has panicked (a panic ends the process) and scan has not returned.
Scanning == ~scan.returned /\ \A w \in ScanWorkers : scan.wpc[w] # "panic"

\* Line 207: `for dir := range dirs` receives a directory, or ends when the
\* channel is closed and empty.
ScanReceive(w) ==
    /\ Scanning
    /\ scan.wpc[w] = "range"
    /\ IF scan.dirs # <<>>
       THEN scan' = [scan EXCEPT !.dirs = Tail(@), !.dir[w] = Head(scan.dirs),
                                 !.wpc[w] = "received"]
       ELSE /\ scan.closed
            /\ scan' = [scan EXCEPT !.wpc[w] = "exited"]

\* Lines 208-209, 234-237: atomic.AddInt32(&activeWorkers, 1), then processDir
\* reads the directory.
ScanBegin(w) ==
    /\ Scanning
    /\ scan.wpc[w] = "received"
    /\ scan' = [scan EXCEPT !.activeWorkers = @ + 1,
                            !.todo[w] = scan.tree[scan.dir[w]],
                            !.wpc[w] = "processing"]

\* Lines 239-273: one entry of the directory: a subdirectory is sent to the
\* channel (a send on a closed channel panics), or processed in place when
\* the buffer is full; a watched file goes into the result.
ScanEntry(w) ==
    /\ Scanning
    /\ scan.wpc[w] = "processing"
    /\ scan.todo[w] # <<>>
    /\ LET e == Head(scan.todo[w]) IN
        scan' =
            IF e.kind = "dir"
            THEN IF scan.closed THEN [scan EXCEPT !.wpc[w] = "panic"]
                 ELSE IF Len(scan.dirs) < DirsCap
                 THEN [scan EXCEPT !.dirs = Append(@, e.name), !.todo[w] = Tail(@)]
                 ELSE [scan EXCEPT !.todo[w] = scan.tree[e.name] \o Tail(@)]
            ELSE IF e.kind = "file"
            THEN [scan EXCEPT !.result = @ \cup {e.name}, !.todo[w] = Tail(@)]
            ELSE [scan EXCEPT !.todo[w] = Tail(@)]

\* Line 210: processDir returned; atomic.AddInt32(&activeWorkers, -1).
ScanEnd(w) ==
    /\ Scanning
    /\ scan.wpc[w] = "processing"
    /\ scan.todo[w] = <<>>
    /\ scan' = [scan EXCEPT !.activeWorkers = @ - 1, !.wpc[w] = "range"]

\* Lines 220-222: after a sleep the monitor reads len(dirs).
MonitorLen ==
    /\ Scanning
    /\ scan.monitor = "sleep"
    /\ Len(scan.dirs) = 0
    /\ scan' = [scan EXCEPT !.monitor = "load"]

\* Lines 222-225: then it reads activeWorkers, and closes the channel when
\* that is 0.
MonitorLoad ==
    /\ Scanning
    /\ scan.monitor = "load"
    /\ scan' = IF scan.activeWorkers = 0
               THEN [scan EXCEPT !.closed = TRUE, !.monitor = "done"]
               ELSE [scan EXCEPT !.monitor = "sleep"]

\* Lines 228-229: wg.Wait() returns once every worker has exited.
ScanReturn ==
    /\ Scanning
    /\ \A w \in ScanWorkers : scan.wpc[w] = "exited"
    /\ scan' = [scan EXCEPT !.returned = TRUE]

\* ------------------------------------------------------------ the systems

SessionInit ==
    /\ pc = [t \in Tasks |-> IF t \in Watchers \cup {Sig} THEN "off" ELSE "idle"]
    /\ msg = [t \in Tasks |-> NoMsg]
    /\ werr = [t \in Tasks |-> FALSE]
    /\ mu = NoTask
    /\ stdinOpen = TRUE
    /\ pipe = 0
    /\ wire = <<>>
    /\ lspSent = 0
    /\ rd = [pc |-> "read", m |-> LspMsg(AbsentId, "", FALSE, ""), late |-> FALSE]
    /\ requestID = 0
    /\ pending = <<>>
    /\ pendingMu = NoTask
    /\ respCh = [c \in Callers |-> <<>>]
    /\ callID = [c \in Callers |-> 0]
    /\ expired = [c \in Callers |-> FALSE]
    /\ ret = [c \in Callers |-> "none"]
    /\ allocLog = <<>>
    /\ recvLog = [c \in Callers |-> <<>>]
    /\ afterTimeout = [c \in Callers |-> FALSE]
    /\ openDocs = {}
    /\ alreadyOpen = [d \in DocClients |-> FALSE]
    /\ apiLog = <<>>
    /\ indexingActive = FALSE
    /\ indexingCurrent = 0
    /\ indexingTotal = 0
    /\ indexingSpeed = 0
    /\ indexingFirstStarted = 0
    /\ progLog = <<>>
    /\ progGap = "long"
    /\ progTokens = <<>>
    /\ statusOut = NoStatus
    /\ watcherMode = ""
    /\ fs = [p \in Paths |-> 1]
    /\ fsChanges = 0
    /\ fileMap = [p \in Paths |-> 0]
    /\ oldFiles = [p \in Paths |-> 0]
    /\ fsEvents = <<>>
    /\ pendingChanges = [p \in Paths |-> 0]
    /\ timerArmed = FALSE
    /\ conn = [c \in Callers |-> "none"]
    /\ apiLines = 0
    /\ apiReq = [c \in Callers |-> NoRequest]
    /\ apiOut = [c \in Callers |-> <<>>]
    /\ daemon = "up"
    /\ nativeWatcher = "none"
    /\ watcherStop = [w \in {Poller, Fsn} |-> "open"]

CodecIdle == codec = CodecAt("idle", AbsentId, ZeroID, AbsentId)

Init ==
    /\ SessionInit
    /\ CodecIdle
    /\ FramingIdle
    /\ PathIdle
    /\ ScanIdle
    /\ DebounceIdle
    /\ BootIdle
    /\ PollIdle

\* The id codec is given one of the id values.
CodecInit ==
    /\ SessionInit
    /\ codec \in {CodecAt("input", raw, ZeroID, AbsentId) : raw \in IdInputs}
    /\ FramingIdle
    /\ PathIdle
    /\ ScanIdle
    /\ DebounceIdle
    /\ BootIdle
    /\ PollIdle

\* The framed codec is given one to MaxFrames bodies.
FrameInit ==
    /\ SessionInit
    /\ CodecIdle
    /\ framing \in {FramingAt(bodies, <<>>, <<>>, <<>>, "") :
                       bodies \in UNION {[1..n -> FrameBodies] : n \in 1..MaxFrames}}
    /\ PathIdle
    /\ ScanIdle
    /\ DebounceIdle
    /\ BootIdle
    /\ PollIdle

\* The path mapper is given one host path.
PathInit ==
    /\ SessionInit
    /\ CodecIdle
    /\ FramingIdle
    /\ pathmap \in {PathmapAt("input", hostPath, FALSE, <<>>) : hostPath \in HostPaths}
    /\ ScanIdle
    /\ DebounceIdle
    /\ BootIdle
    /\ PollIdle

\* A scan of one of the workspaces begins: the workers are started and the
\* root directory is in the channel (lines 202-215).
ScanInit ==
    /\ SessionInit
    /\ CodecIdle
    /\ FramingIdle
    /\ PathIdle
    /\ scan \in {ScanAt(tree) : tree \in Trees}
    /\ DebounceIdle
    /\ BootIdle
    /\ PollIdle

\* A runFsnotifyWatcher loop starts: no event yet, the timer stopped and
\* drained (lines 404-408).
DebounceInit ==
    /\ SessionInit
    /\ CodecIdle
    /\ FramingIdle
    /\ PathIdle
    /\ ScanIdle
    /\ debounce \in {DebounceAt(timers, <<>>, 0, NoChanges, [p \in Paths |-> <<>>],
                                FALSE, FALSE, TRUE, <<>>) : timers \in TimerChannels}
    /\ BootIdle
    /\ PollIdle

\* What the steps of each group of goroutines leave alone.
sendRequestFrame == <<ioVars, rdVars, docVars, progVars, watchVars, apiVars, codecVars, daemonVars, frameVars, nativeVars, stopVars, pathVars, scanVars, debounceVars, bootVars, pollVars>>
writeFrame == <<rdVars, reqVars, docVars, progVars, watchVars, apiVars, codecVars, daemonVars, frameVars, nativeVars, stopVars, pathVars, scanVars, debounceVars, bootVars, pollVars>>
docFrame == <<ioVars, rdVars, reqVars, progVars, watchVars, apiVars, codecVars, daemonVars, frameVars, nativeVars, stopVars, pathVars, scanVars, debounceVars, bootVars, pollVars>>
watchFrame == <<ioVars, rdVars, reqVars, docVars, progVars, apiVars, codecVars, daemonVars, frameVars, nativeVars, stopVars, pathVars, scanVars, debounceVars, bootVars, pollVars>>
childFrame == <<taskVars, rdVars, reqVars, docVars, progVars, watchVars, apiVars, codecVars, daemonVars, frameVars, nativeVars, stopVars, pathVars, scanVars, debounceVars, bootVars, pollVars>>

CallerStep(c) ==
    \/ SendRequestStart(c) /\ UNCHANGED sendRequestFrame
    \/ WriteLock(c) /\ UNCHANGED writeFrame
    \/ WriteHeader(c) /\ UNCHANGED writeFrame
    \/ WriteBody(c) /\ UNCHANGED writeFrame
    \/ SendRequestWritten(c) /\ UNCHANGED sendRequestFrame
    \/ SendRequestReceive(c) /\ UNCHANGED sendRequestFrame
    \/ SendRequestTimeout(c) /\ UNCHANGED sendRequestFrame
    \/ SendRequestCleanup(c) /\ UNCHANGED sendRequestFrame

ReaderStep ==
    \/ \E m \in Responses :
        ReaderReadResponse(m) /\ UNCHANGED <<taskVars, ioVars, reqVars, docVars, progVars, watchVars, apiVars, codecVars, daemonVars, frameVars, nativeVars, stopVars, pathVars, scanVars, debounceVars, bootVars, pollVars>>
    \/ ReaderReadError /\ UNCHANGED <<taskVars, ioVars, reqVars, docVars, progVars, watchVars, apiVars, codecVars, daemonVars, frameVars, nativeVars, stopVars, pathVars, scanVars, debounceVars, bootVars, pollVars>>
    \/ ReaderLock /\ UNCHANGED <<taskVars, ioVars, lspSent, docVars, progVars, watchVars, apiVars, codecVars, daemonVars, frameVars, nativeVars, stopVars, pathVars, scanVars, debounceVars, bootVars, pollVars>>
    \/ ReaderDeliver /\ UNCHANGED <<taskVars, ioVars, lspSent, docVars, progVars, watchVars, apiVars, codecVars, daemonVars, frameVars, nativeVars, stopVars, pathVars, scanVars, debounceVars, bootVars, pollVars>>

ReqEnv ==
    \/ LspConsume /\ UNCHANGED childFrame
    \/ LspDies /\ UNCHANGED childFrame
    \/ \E c \in Callers :
        DeadlineExpires(c) /\ UNCHANGED <<taskVars, ioVars, rdVars, docVars, progVars, watchVars, apiVars, codecVars, daemonVars, frameVars, nativeVars, stopVars, pathVars, scanVars, debounceVars, bootVars, pollVars>>

ReqNext ==
    \/ \E c \in Callers : CallerStep(c)
    \/ ReaderStep
    \/ ReqEnv

\* The request registry: concurrent sendRequest calls, readResponses, the child.
SpecReq == Init /\ [][ReqNext]_vars

DocStep(d) ==
    \/ \E u \in URIs : DidOpenMark(d, u) /\ UNCHANGED docFrame
    \/ \E u \in URIs : DidCloseUnmark(d, u) /\ UNCHANGED docFrame
    \/ WriteLock(d) /\ UNCHANGED writeFrame
    \/ WriteHeader(d) /\ UNCHANGED writeFrame
    \/ WriteBody(d) /\ UNCHANGED writeFrame
    \/ DidOpenClosed(d) /\ UNCHANGED docFrame
    \/ DidOpenReturn(d) /\ UNCHANGED docFrame
    \/ DidCloseReturn(d) /\ UNCHANGED docFrame

DocEnv ==
    \/ LspConsume /\ UNCHANGED childFrame
    \/ LspDies /\ UNCHANGED childFrame

DocNext ==
    \/ \E d \in DocClients : DocStep(d)
    \/ DocEnv

\* The document registry: concurrent didOpen / didClose API calls, the child.
SpecDoc == Init /\ [][DocNext]_vars

statusFrame == <<ioVars, rdVars, reqVars, docVars, watchVars, apiVars, codecVars, daemonVars, frameVars, nativeVars, stopVars, pathVars, scanVars, debounceVars, bootVars, pollVars>>

StatusStep ==
    \/ \E s \in StatusClients, method \in {StatusMethod, CapabilitiesMethod} :
        StatusCall(s, method) /\ UNCHANGED statusFrame
    \/ \E s \in StatusClients : GetStatus(s) /\ UNCHANGED statusFrame
    \/ \E s \in StatusClients : GetCapabilities(s) /\ UNCHANGED statusFrame

StatusEnv ==
    \/ \E m \in CountedProgress :
        Len(progLog) < MaxProgress /\ ReaderReadProgress(m)
            /\ UNCHANGED <<taskVars, ioVars, reqVars, docVars, watchVars, apiVars, codecVars, daemonVars, frameVars, nativeVars, stopVars, pathVars, scanVars, debounceVars, bootVars, pollVars>>

StatusNext ==
    \/ StatusStep
    \/ StatusEnv

TokenNext ==
    \/ \E m \in TokenProgress :
        Len(progLog) < MaxTokenMsgs /\ TokenOrder(m) /\ ReaderReadProgress(m)
            /\ UNCHANGED <<taskVars, ioVars, reqVars, docVars, watchVars, apiVars, codecVars, daemonVars, frameVars, nativeVars, stopVars, pathVars, scanVars, debounceVars, bootVars, pollVars>>
    \/ \E s \in StatusClients : StatusCall(s, StatusMethod) /\ UNCHANGED statusFrame
    \/ \E s \in StatusClients : GetStatus(s) /\ UNCHANGED statusFrame

\* The progress tracker under a server that reports under several tokens,
\* each in protocol order, and the session/status calls.
SpecTokens == Init /\ [][TokenNext]_vars

\* The progress tracker and the session/status and session/capabilities calls.
SpecStatus == Init /\ [][StatusNext]_vars

StatusDocNext ==
    \/ \E d \in DocClients : DocStep(d)
    \/ DocEnv
    \/ StatusStep

\* session/status and session/capabilities calls beside didOpen / didClose
\* calls that write to the child.
SpecStatusDoc == Init /\ [][StatusDocNext]_vars

WatcherStep ==
    \/ StarterSpawn /\ UNCHANGED watchFrame
    \/ StarterCheck /\ UNCHANGED watchFrame
    \/ \E mode \in WatcherModes, nativeOk \in BOOLEAN :
        StartFileWatcher(mode, nativeOk)
            /\ UNCHANGED <<ioVars, rdVars, reqVars, docVars, progVars, apiVars, codecVars,
                           daemonVars, frameVars, stopVars, pathVars, scanVars, debounceVars, bootVars, pollVars>>
    \/ PollTick /\ UNCHANGED watchFrame
    \/ PollCheckIndexing /\ UNCHANGED watchFrame
    \/ PollSent /\ UNCHANGED watchFrame
    \/ FsnEvent /\ UNCHANGED watchFrame
    \/ FsnDebounce /\ UNCHANGED watchFrame
    \/ FsnSent /\ UNCHANGED watchFrame
    \/ \E t \in {Poller, Fsn} : WriteLock(t) /\ UNCHANGED writeFrame
    \/ \E t \in {Poller, Fsn} : WriteHeader(t) /\ UNCHANGED writeFrame
    \/ \E t \in {Poller, Fsn} : WriteBody(t) /\ UNCHANGED writeFrame

WatchEnv ==
    \/ LspConsume /\ UNCHANGED childFrame
    \/ \E m \in Progress :
        lspSent < MaxLspMsgs /\ ReaderReadProgress(m) /\ UNCHANGED <<taskVars, ioVars, reqVars, docVars, watchVars, apiVars, codecVars, daemonVars, frameVars, nativeVars, stopVars, pathVars, scanVars, debounceVars, bootVars, pollVars>>
    \/ \E p \in Paths, t \in 0..MaxMtime :
        FsChange(p, t) /\ UNCHANGED <<ioVars, rdVars, reqVars, docVars, progVars, apiVars, codecVars, daemonVars, frameVars, nativeVars, stopVars, pathVars, scanVars, debounceVars, bootVars, pollVars>>

WatchNext ==
    \/ WatcherStep
    \/ WatchEnv

\* The file watchers: the deferred start, both backends, the progress
\* notifications the reader processes, the workspace.
SpecWatch == Init /\ [][WatchNext]_vars

apiFrame == <<ioVars, rdVars, docVars, progVars, watchVars, codecVars, daemonVars, frameVars, nativeVars, stopVars, pathVars, scanVars, debounceVars, bootVars, pollVars>>

ApiStep(c) ==
    \/ Accept(c) /\ UNCHANGED apiFrame
    \/ \E line \in ApiLinesSent : HandleClientRead(c, line) /\ UNCHANGED apiFrame
    \/ HandleClientReply(c) /\ UNCHANGED apiFrame
    \/ HandleClientEOF(c) /\ UNCHANGED apiFrame
    \/ WriteLock(c) /\ UNCHANGED writeFrame
    \/ WriteHeader(c) /\ UNCHANGED writeFrame
    \/ WriteBody(c) /\ UNCHANGED writeFrame
    \/ SendRequestWritten(c) /\ UNCHANGED sendRequestFrame
    \/ SendRequestReceive(c) /\ UNCHANGED sendRequestFrame
    \/ SendRequestTimeout(c) /\ UNCHANGED sendRequestFrame
    \/ SendRequestCleanup(c) /\ UNCHANGED sendRequestFrame

ApiReaderStep ==
    \/ \E m \in Malformed :
        ReaderReadMalformed(m) /\ UNCHANGED <<taskVars, ioVars, reqVars, docVars, progVars,
                                               watchVars, apiVars, codecVars, daemonVars, frameVars, nativeVars, stopVars, pathVars, scanVars, debounceVars, bootVars, pollVars>>
    \/ ReaderStep

ApiEnv ==
    \/ LspConsume /\ UNCHANGED childFrame
    \/ LspDies /\ UNCHANGED childFrame
    \/ \E c \in ApiClients :
        DeadlineExpires(c) /\ UNCHANGED <<taskVars, ioVars, rdVars, docVars, progVars,
                                           watchVars, apiVars, codecVars, daemonVars, frameVars, nativeVars, stopVars, pathVars, scanVars, debounceVars, bootVars, pollVars>>

ApiNext ==
    \/ \E c \in ApiClients : ApiStep(c)
    \/ ApiReaderStep
    \/ ApiEnv

\* The API: a connection whose requests are forwarded to the child, the
\* reader, the child.
SpecApi == Init /\ [][ApiNext]_vars

codecFrame == <<taskVars, ioVars, rdVars, reqVars, docVars, progVars, watchVars, apiVars, daemonVars, frameVars, nativeVars, stopVars, pathVars, scanVars, debounceVars, bootVars, pollVars>>

CodecNext ==
    \/ CodecUnmarshal /\ UNCHANGED codecFrame
    \/ CodecMarshal /\ UNCHANGED codecFrame

\* The id codec: parse an id, then serialize it.
SpecCodec == CodecInit /\ [][CodecNext]_vars

framingFrame == <<taskVars, ioVars, rdVars, reqVars, docVars, progVars, watchVars, apiVars,
                  codecVars, daemonVars, nativeVars, stopVars, pathVars, scanVars, debounceVars, bootVars, pollVars>>

FrameNext ==
    \/ \E extra \in ExtraHeaders : WriteFrame(extra) /\ UNCHANGED framingFrame
    \/ ReadFrame /\ UNCHANGED framingFrame

\* The framed codec: frames are written to a stream and parsed from it.
SpecFrame == FrameInit /\ [][FrameNext]_vars

PathNext ==
    \/ HostToContainerCall
            /\ UNCHANGED <<taskVars, ioVars, rdVars, reqVars, docVars, progVars, watchVars,
                           apiVars, codecVars, daemonVars, frameVars, nativeVars, stopVars, scanVars, debounceVars, bootVars, pollVars>>

\* The path mapper: one call of HostToContainer.
SpecPath == PathInit /\ [][PathNext]_vars

scanFrame == <<taskVars, ioVars, rdVars, reqVars, docVars, progVars, watchVars, apiVars,
               codecVars, daemonVars, frameVars, nativeVars, stopVars, pathVars, debounceVars, bootVars, pollVars>>

ScanNext ==
    \/ \E w \in ScanWorkers : ScanReceive(w) /\ UNCHANGED scanFrame
    \/ \E w \in ScanWorkers : ScanBegin(w) /\ UNCHANGED scanFrame
    \/ \E w \in ScanWorkers : ScanEntry(w) /\ UNCHANGED scanFrame
    \/ \E w \in ScanWorkers : ScanEnd(w) /\ UNCHANGED scanFrame
    \/ MonitorLen /\ UNCHANGED scanFrame
    \/ MonitorLoad /\ UNCHANGED scanFrame
    \/ ScanReturn /\ UNCHANGED scanFrame

\* The daemon process starts (main, line 113).
BootInit ==
    /\ SessionInit
    /\ CodecIdle
    /\ FramingIdle
    /\ PathIdle
    /\ ScanIdle
    /\ DebounceIdle
    /\ boot = BootAt("start", "dead", "none", FALSE, <<>>, FALSE, [c \in BootClients |-> "none"])
    /\ PollIdle

\* A PollingWatcher has been created.
PollInit ==
    /\ SessionInit
    /\ CodecIdle
    /\ FramingIdle
    /\ PathIdle
    /\ ScanIdle
    /\ DebounceIdle
    /\ BootIdle
    /\ poll = NewPollingWatcher

debounceFrame == <<taskVars, ioVars, rdVars, reqVars, docVars, progVars, watchVars, apiVars,
                   codecVars, daemonVars, frameVars, nativeVars, stopVars, pathVars, scanVars, bootVars, pollVars>>

DebounceNext ==
    \/ \E ev \in FsnotifyEvents : FsnotifyEmit(ev) /\ UNCHANGED debounceFrame
    \/ DebounceEvent /\ UNCHANGED debounceFrame
    \/ TimerExpires /\ UNCHANGED debounceFrame
    \/ DebounceFire /\ UNCHANGED debounceFrame

\* The event backend's loop with the events fsnotify delivers and its timer.
SpecDebounce == DebounceInit /\ [][DebounceNext]_vars

\* The loop and the timer take their steps.
FairDebounce ==
    /\ SpecDebounce
    /\ WF_vars(DebounceEvent /\ UNCHANGED debounceFrame)
    /\ WF_vars(TimerExpires /\ UNCHANGED debounceFrame)
    /\ WF_vars(DebounceFire /\ UNCHANGED debounceFrame)

bootFrame == <<taskVars, ioVars, rdVars, reqVars, docVars, progVars, watchVars, apiVars,
               codecVars, daemonVars, frameVars, nativeVars, stopVars, pathVars, scanVars,
               debounceVars, pollVars>>

BootNext ==
    \/ \E ok \in BOOLEAN : StartChild(ok) /\ UNCHANGED bootFrame
    \/ InitializeWrite /\ UNCHANGED bootFrame
    \/ \E kind \in {"result", "error"} : LspReply(kind) /\ UNCHANGED bootFrame
    \/ InitializeReceive /\ UNCHANGED bootFrame
    \/ InitializeTimeout /\ UNCHANGED bootFrame
    \/ InitializedNotify /\ UNCHANGED bootFrame
    \/ InitializeReturn /\ UNCHANGED bootFrame
    \/ \E ok \in BOOLEAN : Listen(ok) /\ UNCHANGED bootFrame
    \/ BootLspDies /\ UNCHANGED bootFrame
    \/ \E c \in BootClients : ClientConnect(c) /\ UNCHANGED bootFrame
    \/ \E c \in BootClients, local \in BOOLEAN : ClientRequest(c, local) /\ UNCHANGED bootFrame
    \/ \E c \in BootClients : ClientResponse(c) /\ UNCHANGED bootFrame
    \/ \E c \in BootClients : ClientClose(c) /\ UNCHANGED bootFrame

\* The daemon from its start to the serving of API clients.
SpecBoot == BootInit /\ [][BootNext]_vars

pollFrame == <<taskVars, ioVars, rdVars, reqVars, docVars, progVars, watchVars, apiVars,
               codecVars, daemonVars, frameVars, nativeVars, stopVars, pathVars, scanVars,
               debounceVars, bootVars>>

PollNext ==
    \/ PollStart /\ UNCHANGED pollFrame
    \/ PollStartLoop /\ UNCHANGED pollFrame
    \/ PollStopCall /\ UNCHANGED pollFrame
    \/ PollStopClose /\ UNCHANGED pollFrame
    \/ \E i \in Loops : TickerFires(i) /\ UNCHANGED pollFrame
    \/ \E i \in Loops : LoopTick(i) /\ UNCHANGED pollFrame
    \/ \E i \in Loops : LoopTickDone(i) /\ UNCHANGED pollFrame
    \/ \E i \in Loops : LoopReturn(i) /\ UNCHANGED pollFrame

\* A PollingWatcher under any Start and Stop calls.
SpecPoll == PollInit /\ [][PollNext]_vars

\* One parallel scan: its workers and its monitor.
SpecScan == ScanInit /\ [][ScanNext]_vars

\* The Go scheduler runs every goroutine that can run: each worker and the
\* monitor (which wakes up every 50ms) take their steps, and scan's wg.Wait
\* returns once it can.
FairScan ==
    /\ SpecScan
    /\ \A w \in ScanWorkers :
        /\ WF_vars(ScanReceive(w) /\ UNCHANGED scanFrame)
        /\ WF_vars(ScanBegin(w) /\ UNCHANGED scanFrame)
        /\ WF_vars(ScanEntry(w) /\ UNCHANGED scanFrame)
        /\ WF_vars(ScanEnd(w) /\ UNCHANGED scanFrame)
    /\ WF_vars(MonitorLen /\ UNCHANGED scanFrame)
    /\ WF_vars(MonitorLoad /\ UNCHANGED scanFrame)
    /\ WF_vars(ScanReturn /\ UNCHANGED scanFrame)

sigFrame == <<mu, pipe, wire, rdVars, reqVars, docVars, progVars, watchVars, apiVars,
              codecVars, frameVars, nativeVars, stopVars, pathVars, scanVars, debounceVars, bootVars, pollVars>>

\* The steps of the signal goroutine once the signal has arrived.
SigStep ==
    \/ Running /\ SigStopWatchers
            /\ UNCHANGED <<mu, pipe, wire, rdVars, reqVars, docVars, progVars, watchVars,
                           apiVars, codecVars, frameVars, nativeVars, pathVars, scanVars, debounceVars, bootVars, pollVars>>
    \/ Running /\ WriteLock(Sig) /\ UNCHANGED writeFrame
    \/ Running /\ WriteHeader(Sig) /\ UNCHANGED writeFrame
    \/ Running /\ WriteBody(Sig) /\ UNCHANGED writeFrame
    \/ Running /\ SigKill /\ UNCHANGED sigFrame
    \/ Running /\ SigExit /\ UNCHANGED sigFrame

\* main's accept loop and the connections.
MainStep ==
    \/ \E c \in ApiClients : Running /\ Accept(c) /\ UNCHANGED apiFrame
    \/ \E c \in ApiClients : Running /\ HandleClientEOF(c) /\ UNCHANGED apiFrame

DaemonReaderStep ==
    \/ \E m \in Responses :
        Running /\ ReaderReadResponse(m) /\ UNCHANGED daemonVars
            /\ UNCHANGED <<taskVars, ioVars, reqVars, docVars, progVars, watchVars, apiVars, codecVars, frameVars, nativeVars, stopVars, pathVars, scanVars, debounceVars, bootVars, pollVars>>
    \/ Running /\ ReaderReadError /\ UNCHANGED daemonVars
            /\ UNCHANGED <<taskVars, ioVars, reqVars, docVars, progVars, watchVars, apiVars, codecVars, frameVars, nativeVars, stopVars, pathVars, scanVars, debounceVars, bootVars, pollVars>>
    \/ Running /\ ReaderLock /\ UNCHANGED daemonVars
            /\ UNCHANGED <<taskVars, ioVars, lspSent, docVars, progVars, watchVars, apiVars, codecVars, frameVars, nativeVars, stopVars, pathVars, scanVars, debounceVars, bootVars, pollVars>>
    \/ Running /\ ReaderDeliver /\ UNCHANGED daemonVars
            /\ UNCHANGED <<taskVars, ioVars, lspSent, docVars, progVars, watchVars, apiVars, codecVars, frameVars, nativeVars, stopVars, pathVars, scanVars, debounceVars, bootVars, pollVars>>

DaemonEnv ==
    \/ Running /\ Signal /\ UNCHANGED sigFrame
    \/ Running /\ LspConsume /\ UNCHANGED childFrame
    \/ Running /\ LspDies /\ UNCHANGED childFrame

DaemonNext ==
    \/ SigStep
    \/ MainStep
    \/ DaemonReaderStep
    \/ DaemonEnv

\* The daemon process: main's accept loop, the reader, the signal goroutine,
\* the child.
SpecDaemon == Init /\ [][DaemonNext]_vars

\* Every goroutine that can take a step is scheduled; nothing obliges a
\* signal to arrive, a client to connect, or the child to go on.
FairDaemon ==
    /\ SpecDaemon
    /\ WF_vars(SigStep)
    /\ WF_vars(DaemonReaderStep)

loopFrame == <<ioVars, rdVars, reqVars, docVars, progVars, watchVars, apiVars, codecVars,
               daemonVars, frameVars, nativeVars, stopVars, pathVars, scanVars, debounceVars, bootVars, pollVars>>

\* The watcher goroutines while the daemon runs, with the end of their loops.
ShutdownWatcherStep ==
    \/ Running /\ StarterSpawn /\ UNCHANGED watchFrame
    \/ Running /\ StarterCheck /\ UNCHANGED watchFrame
    \/ \E mode \in WatcherModes, nativeOk \in BOOLEAN :
        Running /\ StartFileWatcher(mode, nativeOk)
            /\ UNCHANGED <<ioVars, rdVars, reqVars, docVars, progVars, apiVars, codecVars,
                           daemonVars, frameVars, stopVars, pathVars, scanVars, debounceVars, bootVars, pollVars>>
    \/ Running /\ PollTick /\ UNCHANGED watchFrame
    \/ Running /\ PollCheckIndexing /\ UNCHANGED watchFrame
    \/ Running /\ PollSent /\ UNCHANGED watchFrame
    \/ Running /\ PollStop /\ UNCHANGED loopFrame
    \/ Running /\ FsnEvent /\ UNCHANGED watchFrame
    \/ Running /\ FsnDebounce /\ UNCHANGED watchFrame
    \/ Running /\ FsnSent /\ UNCHANGED watchFrame
    \/ Running /\ FsnStop /\ UNCHANGED loopFrame
    \/ \E t \in {Poller, Fsn} : Running /\ WriteLock(t) /\ UNCHANGED writeFrame
    \/ \E t \in {Poller, Fsn} : Running /\ WriteHeader(t) /\ UNCHANGED writeFrame
    \/ \E t \in {Poller, Fsn} : Running /\ WriteBody(t) /\ UNCHANGED writeFrame

ShutdownEnv ==
    \/ Running /\ Signal /\ UNCHANGED sigFrame
    \/ Running /\ LspConsume /\ UNCHANGED childFrame
    \/ Running /\ LspDies /\ UNCHANGED childFrame
    \/ \E p \in Paths, t \in 0..MaxMtime :
        Running /\ FsChange(p, t)
            /\ UNCHANGED <<ioVars, rdVars, reqVars, docVars, progVars, apiVars, codecVars,
                           daemonVars, frameVars, nativeVars, stopVars, pathVars, scanVars, debounceVars, bootVars, pollVars>>

ShutdownNext ==
    \/ SigStep
    \/ ShutdownWatcherStep
    \/ ShutdownEnv

\* Shutdown of a daemon whose file watchers run: the signal goroutine, the
\* watcher goroutines, the child, the workspace.
SpecShutdown == Init /\ [][ShutdownNext]_vars

\* The scheduler runs the signal goroutine and the watcher goroutines whenever
\* they can take a step; nothing obliges the child to read its stdin or to exit.
FairShutdown ==
    /\ SpecShutdown
    /\ WF_vars(SigStep)
    /\ WF_vars(ShutdownWatcherStep)

\* The scheduler runs every goroutine that can take a step; nothing obliges the
\* child to read its stdin, to answer, or to exit.
FairReq ==
    /\ SpecReq
    /\ \A c \in Callers : WF_vars(CallerStep(c))
    /\ WF_vars(ReaderStep)

\* ------------------------------------------------ request registry: claims

\* The id a response carries: a number, or a string that parses to one.
Carried(raw) ==
    IF raw.kind = "num" THEN [ok |-> TRUE, v |-> raw.n]
    ELSE IF raw.kind = "str" THEN ParseInt(raw.s)
    ELSE [ok |-> FALSE, v |-> 0]

CarriesIdOf(raw, c) == Carried(raw).ok /\ Carried(raw).v = callID[c]

\* C1: a response carrying id N (a number, or a string that parses to N) is
\* handed only to the caller that allocated N; a caller receives at most one
\* response; a response matching no pending entry reaches no caller (no
\* channel of a call that is not in progress ever holds a response).
C1_ResponseRouting ==
    \A c \in Callers :
        /\ \A i \in 1..Len(respCh[c]) : CarriesIdOf(respCh[c][i].raw, c)
        /\ \A i \in 1..Len(recvLog[c]) : CarriesIdOf(recvLog[c][i], c)
        /\ Len(recvLog[c]) <= 1
        /\ ~InProgress(c) => respCh[c] = <<>>

\* Both callers have received a response, one of them under a string id.
C1_Witness ==
    /\ \A c \in Callers : pc[c] = "done" /\ Len(recvLog[c]) = 1
    /\ \E c \in Callers : recvLog[c][1].kind = "str"

\* C2: once a sendRequest call has returned - with a result, an LSP error, a
\* write error or a timeout - its id is no key of the pending map; when no call
\* is in progress the pending map is empty.
C2_PendingCleared ==
    /\ \A c \in Callers : pc[c] = "done" => callID[c] \notin DOMAIN pending
    /\ (\A c \in Callers : ~InProgress(c)) => DOMAIN pending = {}

\* One call has returned a timeout and another a write error.
C2_Witness ==
    \E c, d \in Callers :
        /\ pc[c] = "done" /\ ret[c] = "timeout"
        /\ pc[d] = "done" /\ ret[d] = "writeerr"

\* C3: a call whose deadline has expired eventually returns and removes its
\* pending entry, in whatever state the deadline finds it - also while it is
\* still writing the request to the child's stdin.
C3_TimeoutReturns ==
    \A c \in Callers :
        (expired[c] /\ InProgress(c))
            ~> (pc[c] = "done" /\ callID[c] \notin DOMAIN pending)

\* C10: ids are allocated strictly increasing and never reused; no two calls
\* in progress share an id; every pending entry has exactly one awaiting caller.
C10_UniqueIds ==
    /\ \A i, j \in 1..Len(allocLog) : i < j => allocLog[i] < allocLog[j]
    /\ \A c, d \in Callers :
        (c # d /\ InProgress(c) /\ InProgress(d)) => callID[c] # callID[d]
    /\ \A id \in DOMAIN pending :
        /\ {c \in Callers : InProgress(c) /\ callID[c] = id} = {pending[id]}

\* Two requests are pending at the same time.
C10_Witness ==
    /\ Cardinality(DOMAIN pending) = 2
    /\ \A c \in Callers : pc[c] = "select"

\* ------------------------------------------------ document registry: claims

\* The didOpen / didClose notifications the LSP has been sent for u, in order.
StreamOf(u) ==
    LET forU == SelectSeq(Stream, LAMBDA p : p.m.uri = u)
    IN [i \in 1..Len(forU) |-> forU[i].m.method]

\* The API calls and returns that name u, in order.
ApiLogOf(u) == SelectSeq(apiLog, LAMBDA e : e.uri = u)

\* d1 opened u and returned, then d2 opened u and returned, both without error.
TwoSuccessiveOpens(u, d1, d2) ==
    <<ApiEvent("call", "open", u, d1, FALSE), ApiEvent("ret", "open", u, d1, FALSE),
      ApiEvent("call", "open", u, d2, FALSE), ApiEvent("ret", "open", u, d2, FALSE)>>

\* C4: two didOpen calls for one URI u, the second started after the first
\* returned and no didClose between them, put exactly didOpen, didClose,
\* didOpen for u on the LSP stream, and the open-document set holds u once.
C4_RefreshSequence ==
    \A u \in URIs : \A d1, d2 \in DocClients :
        ApiLogOf(u) = TwoSuccessiveOpens(u, d1, d2)
            => /\ StreamOf(u) = <<DidOpenMethod, DidCloseMethod, DidOpenMethod>>
               /\ u \in openDocs
               /\ (apiLog = ApiLogOf(u) => Cardinality(openDocs) = 1)

\* Two successive didOpen calls for one URI have returned.
C4_Witness ==
    \E u \in URIs : \E d1, d2 \in DocClients :
        /\ apiLog = TwoSuccessiveOpens(u, d1, d2)
        /\ \A d \in DocClients : pc[d] = "idle"

\* The number of didOpen sent for u after the last didClose sent for u.
UnclosedOpens(u) ==
    LET s == StreamOf(u)
        closes == {i \in 1..Len(s) : s[i] = DidCloseMethod}
        lastClose == IF closes = {} THEN 0 ELSE CHOOSE i \in closes : \A j \in closes : j <= i
    IN Len(s) - lastClose

\* C5: when no didOpen / didClose call is in progress, a URI is in the
\* open-document set exactly when the LSP stream holds one didOpen for it that
\* no didClose follows.
C5_SetMatchesStream ==
    (\A d \in DocClients : pc[d] = "idle")
        => \A u \in URIs : (u \in openDocs <=> UnclosedOpens(u) = 1)

\* C6: when only didOpen calls have been made for a URI, the LSP is sent no
\* didClose for it before its first didOpen and no two didOpen without a
\* didClose between them.
C6_OpensSerialized ==
    \A u \in URIs :
        (\A i \in 1..Len(ApiLogOf(u)) : ApiLogOf(u)[i].op = "open")
            => LET s == StreamOf(u) IN
                /\ Len(s) > 0 => s[1] = DidOpenMethod
                /\ \A i \in 1..Len(s) - 1 :
                    ~(s[i] = DidOpenMethod /\ s[i + 1] = DidOpenMethod)

\* ---------------------------------------------------- file watcher: claims

\* A $/progress begin has been processed and no end after it.
IndexingPerLog ==
    \E i \in 1..Len(progLog) :
        /\ progLog[i] = "begin"
        /\ \A j \in (i + 1)..Len(progLog) : progLog[j] # "end"

\* Watcher t's step puts the body of its notification on the LSP stream.
WatcherSends(t) ==
    /\ pc[t] = "wBody"
    /\ pc'[t] = "wrote"
    /\ Len(wire') = Len(wire) + 1
    /\ wire'[Len(wire')].m.method = WatchedFilesMethod

\* C7: while indexing is active (a $/progress begin processed, no end after
\* it) neither backend of the file watcher, polling or fsnotify, writes a
\* workspace/didChangeWatchedFiles notification to the LSP.
C7_NoNotifyWhileIndexing ==
    [][\A t \in {Poller, Fsn} : WatcherSends(t) => ~IndexingPerLog]_vars

\* The polling watcher drops the changes of a tick because of indexing.
PollSuppressed ==
    /\ pc[Poller] = "pwCheck"
    /\ pc'[Poller] = "pwIdle"

\* C8: a tick of the polling watcher whose notification is suppressed because
\* indexing is active does not advance the snapshot: pw.fileMap is still what
\* it was before the tick, so the change is seen again by the next tick.
C8_SnapshotKeptWhenSuppressed ==
    [][PollSuppressed => fileMap' = oldFiles]_vars

\* C9: startFileWatcher runs only after a $/progress begin and, after it, its
\* end have been processed.
C9_StartAfterFirstCycle ==
    pc[Starter] \in {"start", "done"} =>
        \E i \in 1..Len(progLog), j \in 1..Len(progLog) :
            /\ i < j
            /\ progLog[i] = "begin"
            /\ progLog[j] = "end"

\* --------------------------------------- request registry: further claims

\* The response the reader is about to deliver carries the id of caller c,
\* whose pending entry is still there.
DeliveringTo(c) ==
    /\ rd.pc = "deliver"
    /\ callID[c] \in DOMAIN pending
    /\ AsInt64(UnmarshalJSON(rd.m.id)) = callID[c]

\* C11: a response that arrives after its caller has timed out (the reader
\* read it when the caller had taken the ctx.Done() branch of sendRequest)
\* does not block the reader: the reader can complete its channel send, or
\* finds no entry, and goes on.
C11_LateResponseDiscarded ==
    \A c \in Callers :
        (DeliveringTo(c) /\ rd.late) => Len(respCh[c]) < RespChanCap

C14_InFlightFailOnReadError ==
    [][\A c \in Callers :
        (rd.pc = "exited" /\ pc[c] = "select" /\ pc'[c] = "cleanup")
            => ret'[c] # "timeout"]_vars

\* ----------------------------------------------------- writeMessage: claims

\* C13: frames of concurrent writers never interleave on the LSP's stdin:
\* every header is directly followed by the body of the same message of the
\* same writer, and every body directly follows its header.
C13_FramesContiguous ==
    \A i \in 1..Len(wire) :
        /\ (wire[i].part = "header" /\ i < Len(wire)) =>
                /\ wire[i + 1].part = "body"
                /\ wire[i + 1].by = wire[i].by
                /\ wire[i + 1].m = wire[i].m
        /\ wire[i].part = "body" =>
                /\ i > 1
                /\ wire[i - 1].part = "header"
                /\ wire[i - 1].by = wire[i].by

\* A writer is between its header and its body, after a complete frame of
\* another writer, while another writer waits for sm.mu.
C13_Witness ==
    \E t, u \in DocClients :
        /\ t # u
        /\ pc[t] = "wBody"
        /\ pc[u] = "wLock"
        /\ Len(wire) >= 3
        /\ wire[Len(wire)].by = t
        /\ wire[1].by = u

\* -------------------------------------------------------------- API: claims

\* C16: when the child answers a forwarded request with a JSON-RPC error, the
\* error response written to the API client carries the child's code and the
\* child's message.
C16_LspErrorVerbatim ==
    \A c \in ApiClients :
        \A i \in 1..Len(apiOut[c]) :
            apiOut[c][i].cause = "lsperr" =>
                /\ apiOut[c][i].code = LspError.code
                /\ apiOut[c][i].message = <<LspError.message>>

\* A line that is not blank and is no JSON.
Unparseable(line) == ~line.blank /\ ~line.json

\* C17: a line (not blank) that is no JSON is answered with one error
\* response of code -32700, nothing is written to the LSP, no call is started,
\* and the connection stays open with HandleClient ready for the next line.
C17_ParseErrorKeepsConnection ==
    [][\A c \in ApiClients :
        \A line \in ApiLinesSent :
            (Unparseable(line) /\ HandleClientRead(c, line)) =>
                /\ Len(apiOut'[c]) = Len(apiOut[c]) + 1
                /\ apiOut'[c][Len(apiOut'[c])].isError
                /\ apiOut'[c][Len(apiOut'[c])].code = -32700
                /\ wire' = wire
                /\ pending' = pending
                /\ conn'[c] = "open"
                /\ pc'[c] = "idle"]_vars

\* On one connection, a parse error was answered and then the next request
\* got its result.
C17_Witness ==
    \E c \in ApiClients :
        /\ conn[c] = "open"
        /\ Len(apiOut[c]) = 2
        /\ apiOut[c][1].cause = "parse"
        /\ apiOut[c][2] = APIResult(7)

\* C18: a malformed frame of the child never ends the read loop: the loop
\* ends only on a failed read of the child's stdout.
C18_MalformedFrameDropped ==
    rd.pc = "exited" => ~ReadFails(rd.m)

\* C19: a request with a method that handleAPIRequest does not handle is
\* answered with an error of code -32601, and writes nothing to the LSP and
\* changes nothing of the session.
C19_UnknownMethod ==
    [][\A c \in ApiClients :
        \A line \in ApiLinesSent :
            (/\ DecodeRequest(line).ok
             /\ line.method \notin ForwardedMethods
             /\ HandleClientRead(c, line)) =>
                /\ Len(apiOut'[c]) = Len(apiOut[c]) + 1
                /\ apiOut'[c][Len(apiOut'[c])].isError
                /\ apiOut'[c][Len(apiOut'[c])].code = -32601
                /\ wire' = wire
                /\ UNCHANGED <<reqVars, docVars, progVars>>]_vars

\* --------------------------------------------------------- ID codec: claims

\* C20: parsing an id and serializing it again gives the id back: a number
\* stays that number, a string stays that string (also one that parses as an
\* integer), null stays null; a message without id gets no id value.
C20_IdRoundTrip ==
    codec.pc = "emitted" =>
        IF codec.raw.kind = "absent"
        THEN codec.out \in {AbsentId, NullId}
        ELSE codec.out = codec.raw

\* ------------------------------------------------------------ daemon: claims

\* C15: once the read loop has ended because reads of the child's stdout
\* fail (the child died), the daemon eventually terminates.
C15_DeadLspTerminates ==
    (rd.pc = "exited") ~> (daemon = "exited")

\* C21: once parsed, an id of JSON null is told apart from a missing id field
\* through IsSet(): the two inputs give different answers.
C21_NullDistinctFromAbsent ==
    (codec.pc = "parsed" /\ codec.raw = NullId)
        => IsSet(codec.id) # IsSet(DecodeIdField(AbsentId))

\* C22: the bodies readLSPMessage returns are the bodies of the frames
\* written, in order and without error: one Content-Length line, a blank line
\* and the body, also with a further header line, also back to back.
C22_FramingRoundTrip ==
    /\ framing.err = ""
    /\ Len(framing.out) <= Len(framing.written)
    /\ \A i \in 1..Len(framing.out) : framing.out[i] = framing.written[i][1]
    /\ framing.stream = <<>> => Len(framing.out) = Len(framing.written)

C22_Witness ==
    /\ Len(framing.out) = 2
    /\ framing.stream = <<>>
    /\ framing.written[1][2] = "none"
    /\ framing.written[2][2] # "none"
    /\ \E i \in 1..2 : Len(framing.out[i]) >= 10
    /\ \E i \in 1..2 : \E j \in 1..Len(framing.out[i]) : framing.out[i][j] = "\n"

\* C23: every session/status call reports 'indexing' exactly when active is
\* true or (total > 0 and current < total), otherwise 'complete' exactly when
\* total > 0 and current >= total, otherwise 'idle'; and it adds eta_seconds
\* only when the state is 'indexing' and speed > 0.
C23_StatusDerivation ==
    [][\A s \in StatusClients :
        (pc[s] = "status" /\ pc'[s] = "idle") =>
            LET indexing == indexingActive
                                \/ (indexingTotal > 0 /\ indexingCurrent < indexingTotal)
                complete == indexingTotal > 0 /\ indexingCurrent >= indexingTotal
            IN /\ statusOut'.method = StatusMethod
               /\ (statusOut'.state = "indexing") <=> indexing
               /\ (statusOut'.state = "complete") <=> (~indexing /\ complete)
               /\ (statusOut'.state = "idle") <=> (~indexing /\ ~complete)
               /\ statusOut'.eta => (statusOut'.state = "indexing" /\ indexingSpeed > 0)]_vars

C23_Witness ==
    /\ statusOut.method = StatusMethod
    /\ statusOut.state = "indexing"
    /\ statusOut.eta
    /\ ~indexingActive
    /\ progLog = <<"report", "report">>

\* C24: over $/progress notifications the state session/status reports
\* changes only from idle to indexing on the first begin, from indexing to
\* complete on an end after which current >= total, and from complete to
\* indexing on a begin arriving more than 30 seconds after the last update
\* (the notifications being those of one token: begin, reports, end, again).
BeginReportEnd(log) ==
    \A i \in 1..Len(log) :
        IF log[i] = "begin" THEN i = 1 \/ log[i - 1] = "end"
        ELSE i > 1 /\ log[i - 1] \in {"begin", "report"}

C24_StateTransitions ==
    [][(StatusState' # StatusState /\ BeginReportEnd(progLog')) =>
        LET kind == progLog'[Len(progLog')]
        IN /\ Len(progLog') = Len(progLog) + 1
           /\ \/ /\ StatusState = "idle" /\ StatusState' = "indexing"
                 /\ kind = "begin"
                 /\ \A i \in 1..Len(progLog) : progLog[i] # "begin"
              \/ /\ StatusState = "indexing" /\ StatusState' = "complete"
                 /\ kind = "end"
                 /\ indexingCurrent' >= indexingTotal'
              \/ /\ StatusState = "complete" /\ StatusState' = "indexing"
                 /\ kind = "begin"
                 /\ progGap' = "long"]_vars

ExitStarted == \E i \in 1..Len(wire) : wire[i].by = Sig

ExitWritten == \E i \in 1..Len(wire) : wire[i].by = Sig /\ wire[i].part = "body"

\* C26: shutdown steps come in this order: Stop() has stopped the watchers
\* (closed the stop channel of each watcher started) before any byte of exit is
\* written; the child is killed after exit was written (or its write failed);
\* the daemon exits after the child was killed.
C26_ShutdownOrder ==
    [][/\ ExitStarted' => \A w \in {Poller, Fsn} :
                            /\ watcherStop'[w] # "open"
                            /\ watcherStop'[w] = "skipped" =>
                                    (pc[w] = "off" \/ watcherStop[w] = "skipped")
       /\ (pc[Sig] # "killed" /\ pc'[Sig] = "killed") =>
            (pc[Sig] = "wrote" /\ (ExitWritten \/ werr[Sig]))
       /\ daemon' = "exited" => (pc[Sig] \in {"killed", "exited"} /\ ~stdinOpen)]_vars

C26_Witness ==
    /\ daemon = "exited"
    /\ ExitWritten
    /\ watcherStop[Poller] = "closed"
    /\ ~stdinOpen

\* C27: HostToContainer of an enabled mapper returns an error for every host
\* path that is neither the host root nor below it (the empty path too), and
\* for the root and every path below it the container root followed by the
\* rest of the path.
C27_HostToContainer ==
    pathmap.pc = "returned" =>
        LET cleanPath == Clean(SlashesOf(pathmap.hostPath))
            inside == /\ pathmap.hostPath # <<>>
                      /\ \/ cleanPath = HostRoot
                         \/ HasPrefix(cleanPath, HostRoot \o <<"/">>)
        IN IF inside
           THEN /\ ~pathmap.err
                /\ pathmap.path = ContainerRoot \o TrimPrefix(cleanPath, HostRoot)
           ELSE pathmap.err

\* The reader holds pendingMu and its send on the channel of caller c cannot
\* complete: the one-slot buffer is full.
ReaderBlockedOn(c) ==
    /\ pendingMu = "reader"
    /\ DeliveringTo(c)
    /\ Len(respCh[c]) = RespChanCap

\* C28: the reader never holds pendingMu while blocked on its channel send
\* to a caller that is timing out: with two responses of one id and the caller
\* in its timeout branch, the reader's send can complete, so the reader and
\* the caller (waiting for pendingMu in its deferred delete) never wait for
\* each other.
C28_NoBlockUnderPendingMu ==
    \A c \in Callers : ~(ReaderBlockedOn(c) /\ TimedOut(c))

\* Task t is inside stdin.Write of writeMessage and the write cannot go on:
\* the pipe is full and the child is not reading.
BlockedWriting(t) ==
    /\ pc[t] \in {"wHeader", "wBody"}
    /\ stdinOpen
    /\ pipe = PipeCap

\* C29: no task holds sm.mu while suspended in a write to LSP stdin, so that
\* a session/status or session/capabilities call never waits for sm.mu behind
\* a task that is blocked writing a frame.
C29_NoLockAcrossIO ==
    \A s \in StatusClients, t \in Tasks :
        ~(pc[s] \in {"status", "caps"} /\ mu = t /\ BlockedWriting(t))

\* C30: the scan's directory channel is closed only when no directory is left
\* in it or in a worker's hands; no worker sends on the closed channel (which
\* panics); the snapshot returned holds every watched file of the workspace.
C30_ScanComplete ==
    /\ \A w \in ScanWorkers : scan.wpc[w] # "panic"
    /\ scan.closed =>
        /\ scan.dirs = <<>>
        /\ \A w \in ScanWorkers : scan.wpc[w] \in {"range", "exited"}
    /\ scan.returned => scan.result = WatchedFiles(scan.tree)

\* C31: a polling scan terminates: the monitor closes the channel, every
\* worker leaves its loop and scan returns.
C31_ScanTerminates ==
    <>(scan.returned /\ \A w \in ScanWorkers : scan.wpc[w] = "exited")

\* The change types a change list holds for a path.
TypesOf(changes, p) == {c.type : c \in {d \in changes : d.uri = PathToURI(p)}}

\* The change list of the tick that has just run (none when it found no change).
TickChanges == IF pc[Poller] = "pwCheck" THEN msg[Poller].changes ELSE {}

\* C32: starting the polling watcher writes nothing and takes the baseline
\* snapshot; each tick's change list is the diff of the new snapshot against
\* the previous one: Created(1) for a path only in the new one, Changed(2)
\* for a path in both with different mtimes, Deleted(3) for a path only in
\* the previous one, nothing for an unchanged path, one entry per path at most.
C32_PollingDiff ==
    [][/\ (pc[Poller] = "off" /\ pc'[Poller] # "off") =>
            /\ pc'[Poller] = "pwIdle"
            /\ msg'[Poller] = NoMsg
            /\ fileMap' = fs
            /\ wire' = wire
       /\ (pc[Poller] = "pwIdle" /\ pc'[Poller] \in {"pwIdle", "pwCheck"}
                /\ fs' = fs /\ fileMap' = fs /\ oldFiles' = fileMap) =>
            /\ \A c \in TickChanges' : \E p \in Paths : c.uri = PathToURI(p)
            /\ \A p \in Paths :
                TypesOf(TickChanges', p) =
                    IF fileMap'[p] # 0 /\ oldFiles'[p] = 0 THEN {1}
                    ELSE IF fileMap'[p] # 0 /\ oldFiles'[p] # 0 /\ fileMap'[p] # oldFiles'[p]
                    THEN {2}
                    ELSE IF fileMap'[p] = 0 /\ oldFiles'[p] # 0 THEN {3}
                    ELSE {}]_vars

\* A tick has found a file deleted that an earlier tick had found changed.
C32_Witness ==
    /\ pc[Poller] = "pwCheck"
    /\ \E p \in Paths :
        /\ msg[Poller].changes = {FileChange(p, 3)}
        /\ oldFiles[p] = MaxMtime
        /\ fileMap[p] = 0

\* The change type the mapping gives for the events of one URI in a batch
\* (0: no entry): Create -> 1; Write -> 2 unless a Create set 1; Remove or
\* Rename -> 3.
RECURSIVE BatchedType(_, _)
BatchedType(ops, type) ==
    IF ops = <<>> THEN type
    ELSE BatchedType(Tail(ops),
            CASE Head(ops) = "Create" -> 1
              [] Head(ops) = "Write" -> (IF type = 1 THEN 1 ELSE 2)
              [] Head(ops) \in {"Remove", "Rename"} -> 3
              [] OTHER -> type)

\* C33: in the event backend the batched change type of a URI follows the
\* mapping, whatever the events of the batch.
C33_EventMapping ==
    \A p \in Paths : debounce.pendingChanges[p] = BatchedType(debounce.batch[p], 0)

\* The events of a batch that record a change.
Recorded(ops) == \E i \in 1..Len(ops) : ops[i] # "Chmod"

\* C34: in the event backend a batch is sent only when 500ms have passed
\* without an event; a batch holds at most one entry per URI; every recorded
\* change waits in the pending map until its batch is sent, and the map is
\* empty once the batch is sent.
C34_Debounce ==
    /\ \A i \in 1..Len(debounce.sent) :
        /\ debounce.sent[i].quiet
        /\ \A p \in Paths : Cardinality(TypesOf(debounce.sent[i].changes, p)) <= 1
    /\ \A p \in Paths : Recorded(debounce.batch[p]) <=> debounce.pendingChanges[p] # 0

\* C35: a $/progress begin resets first_started_at, current, total and speed
\* exactly when first_started_at is unset or more than 30 seconds have passed
\* since the last update, and otherwise leaves the four unchanged; a report
\* or an end leaves first_started_at unchanged.
C35_CycleReset ==
    [][Len(progLog') = Len(progLog) + 1 =>
        IF progLog'[Len(progLog')] = "begin"
        THEN IF indexingFirstStarted = 0 \/ progGap' = "long"
             THEN /\ indexingFirstStarted' = Len(progLog')
                  /\ indexingCurrent' = 0
                  /\ indexingTotal' = 0
                  /\ indexingSpeed' = 0
             ELSE UNCHANGED <<indexingFirstStarted, indexingCurrent, indexingTotal,
                              indexingSpeed>>
        ELSE UNCHANGED indexingFirstStarted]_vars

\* A second phase has begun within 30 seconds and kept the counters of the first.
C35_Witness ==
    /\ progLog = <<"begin", "report", "begin">>
    /\ progGap = "short"
    /\ indexingFirstStarted = 1
    /\ indexingCurrent > 0
    /\ indexingTotal > 0

\* C36: whenever an API client has obtained a response, the session is
\* marked initialized and the initialized notification has been written to
\* the LSP after the initialize request was answered; the listener is open
\* only after initialize has succeeded.
C36_HandshakeBeforeApi ==
    /\ (\E c \in BootClients : boot.clients[c] \in {"answered", "refused"}) =>
        /\ boot.initialized
        /\ boot.reply = "result"
        /\ boot.written = <<InitializeMethod, InitializedMethod>>
    /\ boot.listener => (boot.initialized /\ boot.reply = "result")

\* C37: under any Start and Stop calls on a PollingWatcher no call panics,
\* at most one polling loop runs at a time, and no tick of a loop starts
\* after a Stop call has returned.
C37_StartStop ==
    /\ ~poll.panicked
    /\ Cardinality({i \in Loops : Alive(poll.loops[i])}) <= 1
    /\ ~poll.lateTick

\* C38: while a token that has begun has not ended, the session counts as
\* indexing: the active flag is true.
C38_ActiveUntilAllEnded ==
    OpenTokens(progLog, progTokens) # {} => indexingActive

\* C39: whenever session/status reports the state 'indexing', IsIndexing()
\* is true.
C39_StatusAgreesWithIsIndexing ==
    [][\A s \in StatusClients :
        (pc[s] = "status" /\ pc'[s] = "idle" /\ statusOut'.state = "indexing")
            => IsIndexing]_vars

\* C40: a termination signal received while a watcher is blocked writing a
\* frame to the LSP's stdin (the LSP has stopped reading) is followed by the
\* kill of the child and the exit of the daemon.
C40_ShutdownCompletes ==
    (pc[Sig] = "stop" /\ \E t \in {Poller, Fsn} : BlockedWriting(t))
        ~> (pc[Sig] \in {"killed", "exited"} /\ daemon = "exited")

====
